---- MODULE Spec2Model ----
(***************************************************************************)
(* LSD (Lisp Structured Data): the parser of src/unnamed/part_000, the     *)
(* packer (binder) of src/unnamed/part_002 (package lsd, lines 532-1035)   *)
(* and LoadString of src/lsd.go.                                           *)
(*                                                                         *)
(* A Go string is a sequence of runes, <<"a","b">>; a rune outside ASCII   *)
(* is written by its code point, "u2023".                                  *)
(* A Go value carries its kind: [k |-> "int8", v |-> 5].                   *)
(***************************************************************************)
EXTENDS Integers, Sequences, FiniteSets, TLC

VARIABLES data, outType, isPtr, pre, out, tree, res, pc

vars == <<data, outType, isPtr, pre, out, tree, res, pc>>

(***************************************************************************)
(* Strings                                                                 *)
(***************************************************************************)

\* s[i:] of Go, i counted from 0.
StrFrom(s, i) == SubSeq(s, i + 1, Len(s))

\* Every string over alphabet A of length at most n.
StringsUpTo(A, n) == UNION { [1..k -> A] : k \in 0..n }

LowerOf ==
  [c \in {"A","B","E","F","I","N","O","S","T","U","X","Y","L","R"} |->
     CASE c = "A" -> "a" [] c = "B" -> "b" [] c = "E" -> "e" [] c = "F" -> "f"
       [] c = "I" -> "i" [] c = "N" -> "n" [] c = "O" -> "o" [] c = "S" -> "s"
       [] c = "T" -> "t" [] c = "U" -> "u" [] c = "X" -> "x" [] c = "Y" -> "y"
       [] c = "L" -> "l" [] c = "R" -> "r"]

\* The letters the model's inputs are written with, lower case to upper case.
UpperOf ==
  [c \in {"a","b","e","f","i","n","o","s","t","u","x","y","l","r","g","m","p"} |->
     CASE c = "a" -> "A" [] c = "b" -> "B" [] c = "e" -> "E" [] c = "f" -> "F"
       [] c = "i" -> "I" [] c = "n" -> "N" [] c = "o" -> "O" [] c = "s" -> "S"
       [] c = "t" -> "T" [] c = "u" -> "U" [] c = "x" -> "X" [] c = "y" -> "Y"
       [] c = "l" -> "L" [] c = "r" -> "R" [] c = "g" -> "G" [] c = "m" -> "M"
       [] c = "p" -> "P"]

\* unicode.ToUpper on the runes the inputs use.
ToUpper(c) == IF c \in DOMAIN UpperOf THEN UpperOf[c] ELSE c

\* lower() of strconv on the runes the inputs use.
ToLower(c) == IF c \in DOMAIN LowerOf THEN LowerOf[c] ELSE c

\* The six bullet runes of isBulletPoint.
BulletRunes == {"-", "*", "u2022", "u25E6", "u2023", "u2043"}

\* Runes of more than one byte in UTF-8 (all the model uses are bullets).
MultiByte == {"u2022", "u25E6", "u2023", "u2043"}

\* publicName without the upper-casing: the head is looked up as written.
publicName_AsWritten(fieldName) == fieldName

\* Capitalize the name of a structure field: the first BYTE is upper-cased.
\* The first byte of a multi-byte rune is 0xE2, which ToUpper sends to
\* U+00C2; the rest of the rune's bytes stay behind as invalid UTF-8,
\* written "?" here.
publicName(fieldName) ==
  IF Len(fieldName) = 0 THEN fieldName
  ELSE IF fieldName[1] \in MultiByte
       THEN <<"u00C2", "?", "?">> \o StrFrom(fieldName, 1)
       ELSE <<ToUpper(fieldName[1])>> \o StrFrom(fieldName, 1)

\* isBulletPoint comparing the whole head with the bullets.
isBulletPoint_WholeHead(str) == str \in {<<b>> : b \in BulletRunes}

\* Allowed node heads to be used as bullet points: decided by the first rune.
isBulletPoint(str) == Len(str) > 0 /\ str[1] \in BulletRunes

\* x := call(); rest: the rest of a function, run with the result x of a call
\* the function makes once.
With(x, rest(_)) == rest(x)

(***************************************************************************)
(* strconv                                                                 *)
(***************************************************************************)

\* Value of a digit rune, 99 for a rune that is no digit in any base.
DigitVal(c) ==
  CASE c = "0" -> 0 [] c = "1" -> 1 [] c = "2" -> 2 [] c = "3" -> 3
    [] c = "4" -> 4 [] c = "5" -> 5 [] c = "6" -> 6 [] c = "7" -> 7
    [] c = "8" -> 8 [] c = "9" -> 9
    [] c \in {"a", "A"} -> 10 [] c \in {"b", "B"} -> 11
    [] c \in {"c", "C"} -> 12 [] c \in {"d", "D"} -> 13
    [] c \in {"e", "E"} -> 14 [] c \in {"f", "F"} -> 15
    [] OTHER -> 99

\* Largest magnitude the model's integers reach; literals are shorter than
\* ten runes, so no 32, 64 or platform-sized integer is out of range.
RangeFails(n, bitSize, signed, neg) ==
  CASE bitSize = 8 /\ ~signed -> n > 255
    [] bitSize = 16 /\ ~signed -> n > 65535
    [] bitSize = 8 /\ signed -> IF neg THEN n > 128 ELSE n > 127
    [] bitSize = 16 /\ signed -> IF neg THEN n > 32768 ELSE n > 32767
    [] OTHER -> FALSE

RECURSIVE DigitsValue(_, _, _)
\* The accumulation loop of strconv.ParseUint: -1 on a rune that is not a
\* digit of the base.
DigitsValue(s, base, acc) ==
  IF Len(s) = 0 THEN acc
  ELSE IF DigitVal(s[1]) >= base THEN -1
       ELSE DigitsValue(Tail(s), base, acc * base + DigitVal(s[1]))

\* The base that strconv.ParseUint reads a literal of base 0 in: 10, or the
\* base its 0b, 0o or 0x prefix names, or 8 after a leading 0.
BaseOf(s) ==
  IF s[1] # "0" THEN 10
  ELSE IF Len(s) >= 3 /\ ToLower(s[2]) = "b" THEN 2
  ELSE IF Len(s) >= 3 /\ ToLower(s[2]) = "o" THEN 8
  ELSE IF Len(s) >= 3 /\ ToLower(s[2]) = "x" THEN 16
  ELSE 8

\* The digits of a literal of base 0, after its prefix.
DigitsOf(s) ==
  IF s[1] # "0" THEN s
  ELSE IF Len(s) >= 3 /\ ToLower(s[2]) \in {"b", "o", "x"} THEN StrFrom(s, 2)
  ELSE StrFrom(s, 1)

\* The result of strconv.ParseUint from what the digit loop returned.
Parsed(n) == IF n < 0 THEN [ok |-> FALSE, v |-> 0] ELSE [ok |-> TRUE, v |-> n]

\* strconv.ParseUint(s, base, 64) for base 0 or 2, before the range check.
ParseDigits(s, base) ==
  IF Len(s) = 0 THEN [ok |-> FALSE, v |-> 0]
  ELSE IF base # 0 THEN Parsed(DigitsValue(s, base, 0))
  ELSE Parsed(DigitsValue(DigitsOf(s), BaseOf(s), 0))

ParseUint(s, base, bitSize) ==
  With(ParseDigits(s, base), LAMBDA r :
    IF r.ok /\ RangeFails(r.v, bitSize, FALSE, FALSE)
    THEN [ok |-> FALSE, v |-> 0] ELSE r)

ParseInt(s, base, bitSize) ==
  IF Len(s) = 0 THEN [ok |-> FALSE, v |-> 0]
  ELSE With(ParseDigits(IF s[1] \in {"+", "-"} THEN Tail(s) ELSE s, base),
            LAMBDA r :
         IF ~r.ok \/ RangeFails(r.v, bitSize, TRUE, s[1] = "-")
         THEN [ok |-> FALSE, v |-> 0]
         ELSE [ok |-> TRUE, v |-> IF s[1] = "-" THEN 0 - r.v ELSE r.v])

\* strconv.ParseBool.
ParseBool(s) ==
  IF s \in {<<"1">>, <<"t">>, <<"T">>, <<"T","R","U","E">>,
            <<"t","r","u","e">>, <<"T","r","u","e">>}
  THEN [ok |-> TRUE, v |-> TRUE]
  ELSE IF s \in {<<"0">>, <<"f">>, <<"F">>, <<"F","A","L","S","E">>,
                 <<"f","a","l","s","e">>, <<"F","a","l","s","e">>}
       THEN [ok |-> TRUE, v |-> FALSE]
       ELSE [ok |-> FALSE, v |-> FALSE]

RECURSIVE IndexOfAny(_, _, _)
\* Position (from 1) of the first rune of s at or after i that is in cs, 0 when
\* there is none.
IndexOfAny(s, cs, i) ==
  IF i > Len(s) THEN 0
  ELSE IF s[i] \in cs THEN i ELSE IndexOfAny(s, cs, i + 1)

RECURSIVE StripZeros(_, _)
\* The decimal value m * 10^e with the trailing zeros of m moved into e.
StripZeros(m, e) ==
  IF m = 0 THEN <<0, 0>>
  ELSE IF m % 10 = 0 THEN StripZeros(m \div 10, e + 1) ELSE <<m, e>>

AllDigits(s) == \A i \in 1..Len(s) : DigitVal(s[i]) < 10

\* s in lower case.
Lowered(s) == [i \in 1..Len(s) |-> ToLower(s[i])]

\* s without its sign.
Unsigned(s) == IF Len(s) > 0 /\ s[1] \in {"+", "-"} THEN Tail(s) ELSE s

\* The float of a decimal literal cut into integer part ip, fraction fp and
\* exponent digits expD: <<mantissa, exponent of ten>>.
FloatOf(neg, ip, fp, hasExp, expNeg, expD) ==
  IF /\ Len(ip) + Len(fp) > 0
     /\ AllDigits(ip) /\ AllDigits(fp)
     /\ (hasExp => Len(expD) > 0 /\ AllDigits(expD))
  THEN [ok |-> TRUE,
        v |-> StripZeros((IF neg THEN -1 ELSE 1) * DigitsValue(ip \o fp, 10, 0),
                         (IF ~hasExp THEN 0
                          ELSE (IF expNeg THEN -1 ELSE 1) * DigitsValue(expD, 10, 0))
                         - Len(fp))]
  ELSE [ok |-> FALSE, v |-> <<0, 0>>]

\* The float of mantissa mant, its point at dot (0: none), and exponent expS.
FloatOfMantissa(neg, mant, dot, hasExp, expS) ==
  FloatOf(neg,
          IF dot = 0 THEN mant ELSE SubSeq(mant, 1, dot - 1),
          IF dot = 0 THEN <<>> ELSE StrFrom(mant, dot),
          hasExp, Len(expS) > 0 /\ expS[1] = "-", Unsigned(expS))

\* The float of the unsigned literal body, its e at ePos (0: none).
FloatOfBody(neg, body, ePos) ==
  FloatOfMantissa(neg,
                  IF ePos = 0 THEN body ELSE SubSeq(body, 1, ePos - 1),
                  IndexOfAny(IF ePos = 0 THEN body ELSE SubSeq(body, 1, ePos - 1),
                             {"."}, 1),
                  ePos # 0,
                  IF ePos = 0 THEN <<>> ELSE StrFrom(body, ePos))

\* The float of the lower-cased literal low, body being low without its sign.
FloatOfLiteral(low, neg, body) ==
  IF body \in {<<"i","n","f">>, <<"i","n","f","i","n","i","t","y">>}
  THEN [ok |-> TRUE, v |-> IF neg THEN <<-1, 999>> ELSE <<1, 999>>]
  ELSE IF low = <<"n","a","n">> THEN [ok |-> TRUE, v |-> <<0, 999>>]
  ELSE FloatOfBody(neg, body, IndexOfAny(body, {"e"}, 1))

\* strconv.ParseFloat on decimal literals (sign, digits, point, exponent) and
\* on the spellings of infinity and NaN; the value is <<mantissa, exponent of
\* ten>>.  Literals keep fewer significant digits than a float32 holds.
ParseFloat(s) ==
  FloatOfLiteral(Lowered(s), Len(s) > 0 /\ s[1] = "-", Unsigned(Lowered(s)))

(***************************************************************************)
(* Extended conversions of the packer                                      *)
(***************************************************************************)

\* Extended version of strconv.ParseInt.  s[0:2] is evaluated first and
\* panics (slice bounds out of range) on a string shorter than two bytes.
parseIntEx(s, bitSize) ==
  IF Len(s) < 2 THEN [st |-> "panic", v |-> 0]
  ELSE With(IF SubSeq(s, 1, 2) = <<"0", "b">>
            THEN ParseInt(StrFrom(s, 2), 2, bitSize)
            ELSE ParseInt(s, 0, bitSize), LAMBDA r :
         [st |-> IF r.ok THEN "ok" ELSE "err", v |-> r.v])

\* Extended version of strconv.ParseUint, with the same s[0:2].
parseUintEx(s, bitSize) ==
  IF Len(s) < 2 THEN [st |-> "panic", v |-> 0]
  ELSE With(IF SubSeq(s, 1, 2) = <<"0", "b">>
            THEN ParseUint(StrFrom(s, 2), 2, bitSize)
            ELSE ParseUint(s, 0, bitSize), LAMBDA r :
         [st |-> IF r.ok THEN "ok" ELSE "err", v |-> r.v])

\* parseBoolEx taking Yes and No in any letter case.
parseBoolEx_AnyCase(repr) ==
  IF ParseBool(repr).ok THEN ParseBool(repr)
  ELSE IF Lowered(repr) \in {<<"y">>, <<"y","e","s">>}
       THEN [ok |-> TRUE, v |-> TRUE]
  ELSE IF Lowered(repr) \in {<<"n">>, <<"n","o">>}
       THEN [ok |-> TRUE, v |-> FALSE]
  ELSE ParseBool(repr)

\* Extended version of strconv.ParseBool.
parseBoolEx(repr) ==
  IF ParseBool(repr).ok THEN ParseBool(repr)
  ELSE IF repr \in {<<"y">>, <<"y","e","s">>, <<"Y","E","S">>, <<"Y","e","s">>}
       THEN [ok |-> TRUE, v |-> TRUE]
  ELSE IF repr \in {<<"n">>, <<"n","o">>, <<"N","O">>, <<"N","o">>}
       THEN [ok |-> TRUE, v |-> FALSE]
  ELSE ParseBool(repr)

(***************************************************************************)
(* Go types and values (package reflect)                                   *)
(***************************************************************************)

IntKinds == {"int", "int8", "int16", "int32", "int64"}

UintKinds == {"uint", "uint8", "uint16", "uint32", "uint64"}

FloatKinds == {"float32", "float64"}

\* The bitSize switches of encodeScalarField.
BitSizeOf(kind) ==
  CASE kind \in {"int", "uint"} -> 0
    [] kind \in {"int8", "uint8"} -> 8
    [] kind \in {"int16", "uint16"} -> 16
    [] kind \in {"int32", "uint32"} -> 32
    [] kind \in {"int64", "uint64"} -> 64

\* Checks whether a kind can be packed as a single scalar value.
isScalarKind(kind) ==
  kind \notin {"chan", "func", "interface", "map", "ptr", "unsafe.Pointer",
               "complex64", "complex128", "struct", "slice", "array"}

\* Checks whether a kind represents a compound type.
isCompoundKind(kind) == kind \in {"array", "slice", "struct", "map"}

TString == [kind |-> "string", name |-> <<"s","t","r","i","n","g">>]

TBool == [kind |-> "bool", name |-> <<"b","o","o","l">>]

TInt == [kind |-> "int", name |-> <<"i","n","t">>]

TInt8 == [kind |-> "int8", name |-> <<"i","n","t","8">>]

TUint8 == [kind |-> "uint8", name |-> <<"u","i","n","t","8">>]

TFloat32 == [kind |-> "float32", name |-> <<"f","l","o","a","t","3","2">>]

TStruct(name, fields) == [kind |-> "struct", name |-> name, fields |-> fields]

TSlice(elem) == [kind |-> "slice", name |-> <<>>, elem |-> elem]

TArray(n, elem) == [kind |-> "array", name |-> <<>>, len |-> n, elem |-> elem]

TMap(key, elem) == [kind |-> "map", name |-> <<>>, key |-> key, elem |-> elem]

\* The untyped nil that encodeScalarField returns for a kind it has no case
\* for; reflect.ValueOf(nil) is the invalid Value.
NilItem == [k |-> "nil", v |-> 0]

RECURSIVE Zero(_)
\* reflect.Zero / reflect.New(t).Elem().
Zero(t) ==
  CASE t.kind = "string" -> [k |-> "string", v |-> <<>>]
    [] t.kind = "bool" -> [k |-> "bool", v |-> FALSE]
    [] t.kind \in IntKinds \cup UintKinds -> [k |-> t.kind, v |-> 0]
    [] t.kind \in FloatKinds -> [k |-> t.kind, v |-> <<0, 0>>]
    [] t.kind = "struct" ->
         [k |-> "struct", v |-> [i \in 1..Len(t.fields) |-> Zero(t.fields[i].type)]]
    [] t.kind = "array" -> [k |-> "array", v |-> [i \in 1..t.len |-> Zero(t.elem)]]
    [] t.kind = "slice" -> [k |-> "slice", v |-> <<>>]
    [] t.kind = "map" -> [k |-> "map", isnil |-> TRUE, v |-> <<>>]
    [] OTHER -> [k |-> t.kind, v |-> 0]

\* reflect.MakeMap: an empty map that is not nil.
MakeMap == [k |-> "map", isnil |-> FALSE, v |-> <<>>]

\* Value.FieldByName: the index (from 1) of the field called name, 0 when the
\* struct has none (the invalid Value).
FieldByName(t, name) ==
  IF \E i \in 1..Len(t.fields) : t.fields[i].name = name
  THEN CHOOSE i \in 1..Len(t.fields) : t.fields[i].name = name
  ELSE 0

(***************************************************************************)
(* The parsed tree                                                         *)
(***************************************************************************)

\* String value in a S-expr.
selfString(str, lineNumber) ==
  [kind |-> "string", str |-> str, lineNumber |-> lineNumber]

\* S-expr value in a S-expr, must start with a selfString.
selfNode(head, values, lineNumber, root) ==
  [kind |-> "node", head |-> head, values |-> values,
   lineNumber |-> lineNumber, root |-> root]

(***************************************************************************)
(* The packer.  A pack function returns the destination as the call left   *)
(* it (the writes made before an error or a panic stay) and how it ended:  *)
(* st is "ok", "err" (a packError with msg and line) or "panic".           *)
(***************************************************************************)

Ok(val) == [st |-> "ok", msg |-> "", line |-> 0, val |-> val]

\* newPackError: the error carries the line of the value it is raised on.
newPackError(v, msg, val) ==
  [st |-> "err", msg |-> msg, line |-> v.lineNumber, val |-> val]

Panic(val) == [st |-> "panic", msg |-> "", line |-> 0, val |-> val]

\* Converts a string to its native non-compound Go type.  val is the item; a
\* kind without a case leaves the item nil and reports no error.
encodeScalarField(str, kind) ==
  CASE kind = "string" -> Ok([k |-> "string", v |-> str.str])
    [] kind = "bool" ->
         With(parseBoolEx(str.str), LAMBDA b :
           IF ~b.ok THEN newPackError(str, "cannot convert value to type", NilItem)
           ELSE Ok([k |-> "bool", v |-> b.v]))
    [] kind \in IntKinds ->
         With(parseIntEx(str.str, BitSizeOf(kind)), LAMBDA i :
           CASE i.st = "panic" -> Panic(NilItem)
             [] i.st = "err" ->
                  newPackError(str, "cannot convert value to type", NilItem)
             [] OTHER -> Ok([k |-> kind, v |-> i.v]))
    [] kind \in UintKinds ->
         With(parseUintEx(str.str, BitSizeOf(kind)), LAMBDA u :
           CASE u.st = "panic" -> Panic(NilItem)
             [] u.st = "err" ->
                  newPackError(str, "cannot convert value to type", NilItem)
             [] OTHER -> Ok([k |-> kind, v |-> u.v]))
    [] kind \in FloatKinds ->
         With(ParseFloat(str.str), LAMBDA f :
           IF ~f.ok THEN newPackError(str, "cannot convert value to type", NilItem)
           ELSE Ok([k |-> kind, v |-> f.v]))
    [] OTHER -> Ok(NilItem)

\* Packs a selfString into a new allocated reflect.Value.
strMakeValue(str, t) ==
  IF isScalarKind(t.kind) THEN
    With(encodeScalarField(str, t.kind), LAMBDA e :
      IF e.st # "ok" THEN [e EXCEPT !.val = Zero(t)] ELSE e)
  ELSE IF isCompoundKind(t.kind) THEN
    newPackError(str, "cannot pack string into field of compound kind", Zero(t))
  ELSE newPackError(str, "unsupported field kind", Zero(t))

\* Packs a selfString into a Go structure/map field.  field.Set panics on the
\* invalid Value that reflect.ValueOf makes of a nil item.
strPackIntoField(str, t, cur) ==
  With(strMakeValue(str, t), LAMBDA m :
    IF m.st # "ok" THEN [m EXCEPT !.val = cur]
    ELSE IF m.val.k = "nil" THEN Panic(cur)
    ELSE Ok(m.val))

\* Check the header value for a compound type nested into a slice or array.
\* checkMetaHeader looking at the heads of structs and maps only.
checkMetaHeader_StructsOnly(node, elemType) ==
  IF elemType.kind \in {"struct", "map"}
       /\ ~isBulletPoint(node.head.str) /\ node.head.str # elemType.name
  THEN newPackError(node.head, "struct head has value instead of bullet or type name", 0)
  ELSE Ok(0)

checkMetaHeader(node, elemType) ==
  IF elemType.kind \in {"slice", "array"} THEN
    IF Len(node.head.str) # 0
    THEN newPackError(node.head, "slice head has value instead of []", 0)
    ELSE Ok(0)
  ELSE IF elemType.kind \in {"struct", "map"} THEN
    IF ~isBulletPoint(node.head.str) /\ node.head.str # elemType.name
    THEN newPackError(node.head, "struct head has value instead of bullet or type name", 0)
    ELSE Ok(0)
  ELSE Ok(0)

\* The loop of packToStruct looking at the kinds of the values only.
UsesFieldOrder_KindsOnly(node, t) ==
  \E i \in 1..Len(node.values) : node.values[i].kind = "string"

\* The loop of packToStruct: by field order as soon as a value is a string or
\* a list whose head is not (as written) the name of a field.
UsesFieldOrder(node, t) ==
  \E i \in 1..Len(node.values) :
     \/ node.values[i].kind = "string"
     \/ /\ node.values[i].kind = "node"
        /\ FieldByName(t, node.values[i].head.str) = 0

RECURSIVE nodePackIntoField(_, _, _)
RECURSIVE nodeMakeValue(_, _)
RECURSIVE arrayLoop(_, _, _, _)
RECURSIVE sliceLoop(_, _, _, _)
RECURSIVE mapLoop(_, _, _, _)
RECURSIVE byNameLoop(_, _, _, _)
RECURSIVE byOrderLoop(_, _, _, _)

\* v.packIntoField(field) on a selfValue: the method of selfString for a
\* string, the method of selfNode for a list.  cur is what the field holds.
packIntoField(v, t, cur) ==
  IF v.kind = "string" THEN strPackIntoField(v, t, cur)
  ELSE nodePackIntoField(v, t, cur)

\* The compound-kind switch at the head of the loops of packToArray and
\* packToSlice.
compoundCheck(n, elemType) ==
  IF elemType.kind \in {"slice", "array", "struct", "map"} THEN
    IF n.kind # "node"
    THEN newPackError(n, "compound kind expected a list of values", 0)
    ELSE checkMetaHeader(n, elemType)
  ELSE Ok(0)

\* for i, n := range node.values of packToArray, from value i on.
arrayLoop(node, t, cur, i) ==
  IF i > Len(node.values) THEN Ok(cur)
  ELSE With(compoundCheck(node.values[i], t.elem), LAMBDA c :
         IF c.st # "ok" THEN [c EXCEPT !.val = cur]
         ELSE With(packIntoField(node.values[i], t.elem, cur.v[i]), LAMBDA r :
                IF r.st # "ok" THEN [r EXCEPT !.val = [cur EXCEPT !.v[i] = r.val]]
                ELSE arrayLoop(node, t, [cur EXCEPT !.v[i] = r.val], i + 1)))

\* packToArray filling a new zero array instead of the one it is handed.
packToArray_FromZero(node, t, cur) ==
  IF Len(node.values) > t.len
  THEN newPackError(node, "too many values to fit into array", cur)
  ELSE arrayLoop(node, t, Zero(t), 1)

\* Packs a selfNode into a Go array.
packToArray(node, t, cur) ==
  IF Len(node.values) > t.len
  THEN newPackError(node, "too many values to fit into array", cur)
  ELSE arrayLoop(node, t, cur, 1)

\* for _, n := range node.values of packToSlice, from value i on.
sliceLoop(node, t, cur, i) ==
  IF i > Len(node.values) THEN Ok(cur)
  ELSE With(compoundCheck(node.values[i], t.elem), LAMBDA c :
         IF c.st # "ok" THEN [c EXCEPT !.val = cur]
         ELSE With(IF node.values[i].kind = "node"
                   THEN nodeMakeValue(node.values[i], t.elem)
                   ELSE strMakeValue(node.values[i], t.elem), LAMBDA m :
                IF m.st # "ok" THEN [m EXCEPT !.val = cur]
                ELSE IF m.val.k = "nil" THEN Panic(cur)
                ELSE sliceLoop(node, t, [cur EXCEPT !.v = Append(@, m.val)], i + 1)))

\* Packs a selfNode into a Go slice.
packToSlice(node, t, cur) == sliceLoop(node, t, cur, 1)

\* SetMapIndex keeping the value a key already has.
SetMapIndex_KeepFirst(m, key, value) ==
  [m EXCEPT !.v = [x \in (DOMAIN m.v) \cup {key} |->
                     IF x \in DOMAIN m.v THEN m.v[x] ELSE value]]

\* m.SetMapIndex(key, value).
SetMapIndex(m, key, value) ==
  [m EXCEPT !.v = [x \in (DOMAIN m.v) \cup {key} |->
                     IF x = key THEN value ELSE m.v[x]]]

\* for _, n := range node.values of packToMap, from value i on.
mapLoop(node, t, cur, i) ==
  IF i > Len(node.values) THEN Ok(cur)
  ELSE IF node.values[i].kind # "node"
  THEN newPackError(node.values[i], "field should be only made of lists", cur)
  ELSE With(encodeScalarField(node.values[i].head, t.key.kind), LAMBDA key :
         IF key.st # "ok" THEN [key EXCEPT !.val = cur]
         ELSE With(packIntoField(node.values[i], t.elem, Zero(t.elem)), LAMBDA r :
                IF r.st # "ok" THEN [r EXCEPT !.val = cur]
                ELSE IF key.val.k = "nil" THEN Panic(cur)
                ELSE mapLoop(node, t, SetMapIndex(cur, key.val, r.val), i + 1)))

\* Packs a selfNode into a Go map.
packToMap(node, t, cur) == mapLoop(node, t, cur, 1)

\* for _, n := range node.values of packToStructByFieldName, from value i on.
\* FieldByName panics on a Value that is not a struct.
byNameLoop(node, t, cur, i) ==
  IF i > Len(node.values) THEN Ok(cur)
  ELSE IF node.values[i].kind # "node"
  THEN newPackError(node.values[i], "field should be only made of lists", cur)
  ELSE IF t.kind # "struct" THEN Panic(cur)
  ELSE With(FieldByName(t, publicName(node.values[i].head.str)), LAMBDA f :
         IF f = 0 THEN newPackError(node.values[i], "undefined field", cur)
         ELSE With(packIntoField(node.values[i], t.fields[f].type, cur.v[f]), LAMBDA r :
                IF r.st # "ok" THEN [r EXCEPT !.val = [cur EXCEPT !.v[f] = r.val]]
                ELSE byNameLoop(node, t, [cur EXCEPT !.v[f] = r.val], i + 1)))

\* packToStructByFieldName filling a new zero structure instead of the one it
\* is handed.
packToStructByFieldName_IntoZero(node, t, cur) == byNameLoop(node, t, Zero(t), 1)

\* Packs a selfNode into a Go structure, each member filling the field of its
\* name.
packToStructByFieldName(node, t, cur) == byNameLoop(node, t, cur, 1)

\* for i, n := range node.values of packToStructByFieldOrder, from value i on.
byOrderLoop(node, t, cur, i) ==
  IF i > Len(node.values) THEN Ok(cur)
  ELSE With(packIntoField(node.values[i], t.fields[i].type, cur.v[i]), LAMBDA r :
         IF r.st # "ok" THEN [r EXCEPT !.val = [cur EXCEPT !.v[i] = r.val]]
         ELSE byOrderLoop(node, t, [cur EXCEPT !.v[i] = r.val], i + 1))

\* Packs a selfNode into a Go structure, member i filling field i.  Node head
\* must match with structure type name.
packToStructByFieldOrder(node, t, cur) ==
  IF Len(t.fields) < Len(node.values)
  THEN newPackError(node, "too many values to fit into struct", cur)
  ELSE IF ~isBulletPoint(node.head.str) /\ t.name # node.head.str
  THEN newPackError(node, "bad value, expected type name", cur)
  ELSE byOrderLoop(node, t, cur, 1)

\* Packs a selfNode into a Go structure.
packToStruct(node, t, cur) ==
  IF UsesFieldOrder(node, t)
  THEN packToStructByFieldOrder(node, t, cur)
  ELSE packToStructByFieldName(node, t, cur)

\* Packs a selfNode into a new allocated reflect.Value.  reflect.MakeSlice
\* panics on the array type it is handed.
nodeMakeValue(node, t) ==
  IF isScalarKind(t.kind) THEN
    newPackError(node, "expected a string element for scalar field", Zero(t))
  ELSE IF t.kind = "array" THEN Panic(Zero(t))
  ELSE IF t.kind = "slice" THEN packToSlice(node, t, Zero(t))
  ELSE IF t.kind = "struct" THEN packToStruct(node, t, Zero(t))
  ELSE IF t.kind = "map" THEN packToMap(node, t, MakeMap)
  ELSE newPackError(node, "unsupported field kind", Zero(t))

\* Packs a selfNode into a Go structure/map field.
nodePackIntoField(node, t, cur) ==
  IF isScalarKind(t.kind) THEN
    IF Len(node.values) # 1
    THEN newPackError(node, "bad number of values for scalar field", cur)
    ELSE IF node.values[1].kind # "string"
    THEN newPackError(node, "expected a string element for scalar field", cur)
    ELSE strPackIntoField(node.values[1], t, cur)
  ELSE IF t.kind = "struct" THEN packToStruct(node, t, cur)
  ELSE IF t.kind = "array" THEN packToArray(node, t, cur)
  ELSE IF t.kind = "slice" THEN packToSlice(node, t, cur)
  ELSE IF t.kind = "map" THEN packToMap(node, t, MakeMap)
  ELSE newPackError(node, "unsupported field kind", cur)

(***************************************************************************)
(* The parser.  pos and runeWidth count runes.  A parse function returns   *)
(* the parser state p it leaves and how it ended: st is "ok" (val is the   *)
(* parsed value), "err" (a parserError with msg and line), "panic" (bad    *)
(* rune) or "hang" (a loop that no longer changes the parser state).       *)
(***************************************************************************)

sexprOpen == "("

sexprClose == ")"

endOfLine == "\n"

\* utf8.RuneError, decoded from a byte sequence that is not UTF-8.
RuneError == "uFFFD"

\* selfParser{input: data, r: '\n'} of LoadString.
\* A parser whose first rune is not the line feed.
NewParser_NoLineFeed(input) ==
  [input |-> input, pos |-> 0, lineNumber |-> 0, r |-> " ",
   runeWidth |-> 0, eod |-> FALSE, bad |-> FALSE]

NewParser(input) ==
  [input |-> input, pos |-> 0, lineNumber |-> 0, r |-> endOfLine,
   runeWidth |-> 0, eod |-> FALSE, bad |-> FALSE]

\* Decode the next rune in the stream.
next(p) ==
  LET q == [p EXCEPT !.pos = p.pos + p.runeWidth]
  IN IF q.pos >= Len(q.input) THEN [q EXCEPT !.eod = TRUE]
     ELSE LET l == [q EXCEPT !.lineNumber = IF p.r = endOfLine THEN @ + 1 ELSE @,
                             !.r = q.input[q.pos + 1],
                             !.runeWidth = 1]
          IN IF l.r = RuneError THEN [l EXCEPT !.bad = TRUE] ELSE l

\* isComment knowing the semicolon only.
isComment_SemicolonOnly(r) == r = ";"

isComment(r) == r \in {";", "#"}

\* unicode.IsSpace.
isSpace(r) == r \in {" ", "\t", "\n", "\r", "\f", "u000B", "u0085", "u00A0"}

isStringChar(r) ==
  IF isSpace(r) THEN FALSE
  ELSE r \notin {"[", "]", "(", ")", "{", "}", "\\"}

RECURSIVE skipLine(_)
\* Move until the next line in the stream.
skipLine(p) ==
  IF ~p.bad /\ ~p.eod /\ p.r # endOfLine THEN skipLine(next(p)) ELSE p

RECURSIVE skipSpaces(_)
\* Skip any spaces, including comments, in the stream.
skipSpaces(p) ==
  IF ~p.bad /\ ~p.eod /\ (isComment(p.r) \/ isSpace(p.r))
  THEN IF isComment(p.r) THEN skipSpaces(skipLine(p)) ELSE skipSpaces(next(p))
  ELSE p

POk(p, val) == [p |-> p, st |-> "ok", msg |-> "", line |-> 0, val |-> val]

\* newError / newErrorAtLine.
PErr(p, msg, line) == [p |-> p, st |-> "err", msg |-> msg, line |-> line, val |-> 0]

PStop(p, st) == [p |-> p, st |-> st, msg |-> "", line |-> 0, val |-> 0]

\* The backtick rune, U+0060.
backtick == "u0060"

RECURSIVE backtickLoop(_, _, _, _)
\* for !p.eod of parseBacktickString; prev is the empty string for -1.
backtickLoop(p, str, prev, lineNum) ==
  IF p.bad THEN PStop(p, "panic")
  ELSE IF p.eod
  THEN PErr(p, "unexpected end of data while parsing string", lineNum)
  ELSE IF p.r # backtick /\ prev = backtick THEN POk(p, selfString(str, lineNum))
  ELSE LET s2 == IF p.r = backtick
                 THEN IF prev = backtick THEN str \o <<backtick>> ELSE str
                 ELSE str \o <<p.r>>
       IN backtickLoop(next(p), s2, p.r, lineNum)

\* Parses a string value enclosed by backtick delimitors.
parseBacktickString(p) == backtickLoop(p, <<>>, "", p.lineNumber)

RECURSIVE bracketLoop(_, _, _, _)
\* The loop of parseBracketedString counting no levels: it ends at the first
\* closing bracket.
bracketLoop_Flat(p, str, level, lineNum) ==
  IF p.bad THEN PStop(p, "panic")
  ELSE IF p.eod
  THEN PErr(p, "unexpected end of data while parsing string", lineNum)
  ELSE IF p.r = "]"
  THEN LET q == next(p)
       IN IF q.bad THEN PStop(q, "panic")
          ELSE IF q.eod
          THEN PErr(q, "unexpected end of data while parsing string", lineNum)
          ELSE POk(q, selfString(str, lineNum))
  ELSE bracketLoop(next(p), str \o <<p.r>>, level, lineNum)

\* for !p.eod of parseBracketedString.
bracketLoop(p, str, level, lineNum) ==
  IF p.bad THEN PStop(p, "panic")
  ELSE IF p.eod
  THEN PErr(p, "unexpected end of data while parsing string", lineNum)
  ELSE IF p.r = "]" /\ level = 1
  THEN LET q == next(p)
       IN IF q.bad THEN PStop(q, "panic")
          ELSE IF q.eod
          THEN PErr(q, "unexpected end of data while parsing string", lineNum)
          ELSE POk(q, selfString(str, lineNum))
  ELSE LET l2 == IF p.r = "]" THEN level - 1
                 ELSE IF p.r = "[" THEN level + 1 ELSE level
       IN bracketLoop(next(p), str \o <<p.r>>, l2, lineNum)

\* Parses a string enclosed into brackets.
parseBracketedString(p) == bracketLoop(p, <<>>, 1, p.lineNumber)

RECURSIVE bareLoop(_, _, _)
\* for isStringChar(p.r) of parseString: at end of data next no longer
\* changes p.r, and the loop runs for ever.
bareLoop(p, str, lineNum) ==
  IF p.bad THEN PStop(p, "panic")
  ELSE IF ~isStringChar(p.r) THEN POk(p, selfString(str, lineNum))
  ELSE IF p.eod THEN PStop(p, "hang")
  ELSE bareLoop(next(p), str \o <<p.r>>, lineNum)

parseString(p) ==
  IF p.eod THEN PErr(p, "unexpected end of data", p.lineNumber)
  ELSE IF p.r = backtick THEN
    LET q == next(p)
    IN IF q.bad THEN PStop(q, "panic") ELSE parseBacktickString(q)
  ELSE IF p.r = "[" THEN
    LET q == next(p)
    IN IF q.bad THEN PStop(q, "panic") ELSE parseBracketedString(q)
  ELSE bareLoop(p, <<>>, p.lineNumber)

RECURSIVE bodyLoop(_, _, _)
RECURSIVE parseNode(_)

\* for !p.eod && p.r != sexprClose of parseNodeBody, p being past the spaces.
\* An iteration that leaves the parser state as it found it is repeated for
\* ever.
bodyLoop(p, rootNode, values) ==
  IF p.bad THEN PStop(p, "panic")
  ELSE IF ~p.eod /\ p.r # sexprClose THEN
    IF p.r # sexprOpen /\ rootNode
    THEN PErr(p, "Unexpected string in root node", p.lineNumber)
    ELSE LET v == IF p.r = sexprOpen THEN parseNode(p) ELSE parseString(p)
         IN IF v.st # "ok" THEN v
            ELSE LET q == skipSpaces(v.p)
                 IN IF q = p THEN PStop(p, "hang")
                    ELSE bodyLoop(q, rootNode, Append(values, v.val))
  ELSE IF p.r = sexprClose
  THEN LET q == next(p)
       IN IF q.bad THEN PStop(q, "panic") ELSE POk(q, values)
  ELSE POk(p, values)

parseNodeBody(p, rootNode) == bodyLoop(skipSpaces(p), rootNode, <<>>)

parseNode(p0) ==
  LET lineNum == p0.lineNumber
      p == skipSpaces(p0)
  IN IF p.bad THEN PStop(p, "panic")
     ELSE IF p.r # sexprOpen
     THEN PErr(p, "expected ( rune at start of list", p.lineNumber)
     ELSE LET q == next(p)
          IN IF q.bad THEN PStop(q, "panic")
             ELSE LET nodeName == parseString(q)
                  IN IF nodeName.st # "ok" THEN nodeName
                     ELSE LET b == parseNodeBody(nodeName.p, FALSE)
                          IN IF b.st # "ok" THEN b
                             ELSE POk(b.p, selfNode(nodeName.val, b.val, lineNum, FALSE))

(***************************************************************************)
(* LoadString                                                              *)
(***************************************************************************)

\* How a call of LoadString ended: kind is "ok" (nil error), "parse" (a
\* parserError), "pack" (a packError), "usage" (the errors.New of LoadString),
\* "panic" or "hang"; val is the destination as the call left it and tree the
\* values of the root node.
Outcome(kind, msg, line, val, values) ==
  [kind |-> kind, msg |-> msg, line |-> line, val |-> val, tree |-> values]

\* Parses a self-ml string and fills the output structure.  outIsPtr and t
\* describe out: a pointer to a t holding cur, or a t passed by value.
\* v.Elem() is evaluated only when out is no pointer, where it panics.
LoadString(input, outIsPtr, t, cur) ==
  With(parseNodeBody(NewParser(input), TRUE), LAMBDA b :
    CASE b.st = "err" -> Outcome("parse", b.msg, b.line, cur, <<>>)
      [] b.st \in {"panic", "hang"} -> Outcome(b.st, "", 0, cur, <<>>)
      [] OTHER ->
           IF ~outIsPtr THEN Outcome("panic", "", 0, cur, b.val)
           ELSE With(packToStructByFieldName(
                       selfNode(selfString(<<"r","o","o","t">>, 0), b.val, 0, TRUE),
                       t, cur), LAMBDA r :
                  Outcome(IF r.st = "err" THEN "pack" ELSE r.st,
                          r.msg, r.line, r.val, b.val)))

(***************************************************************************)
(* Destinations and documents                                              *)
(***************************************************************************)

\* Most values a generated list holds.
MaxItems == 3

sInfo == <<"I","n","f","o">>

sName == <<"N","a","m","e">>

sAge == <<"A","g","e">>

sX == <<"X">>

sPeople == <<"P","e","o","p","l","e">>

sBogus == <<"B","o","g","u","s">>

sPlayerInfo == <<"P","l","a","y","e","r","I","n","f","o">>

sUserName == <<"U","s","e","r","N","a","m","e">>

sCurrentLevel == <<"C","u","r","r","e","n","t","L","e","v","e","l">>

sScore == <<"S","c","o","r","e">>

Field(name, type) == [name |-> name, type |-> type]

\* type Info struct { Name string; Age int }
Info == TStruct(sInfo, <<Field(sName, TString), Field(sAge, TInt)>>)

\* type PlayerInfo struct { UserName string; CurrentLevel int; Score float32 }
PlayerInfo ==
  TStruct(sPlayerInfo, <<Field(sUserName, TString), Field(sCurrentLevel, TInt),
                         Field(sScore, TFloat32)>>)

\* type PlayerProfile struct { Info PlayerInfo }
PlayerProfile ==
  TStruct(<<"P","l","a","y","e","r","P","r","o","f","i","l","e">>,
          <<Field(sInfo, PlayerInfo)>>)

\* type Config struct { Info Info; X Info; People map[string]Info; Name string }
Config ==
  TStruct(<<"C","o","n","f","i","g">>,
          <<Field(sInfo, Info), Field(sX, Info),
            Field(sPeople, TMap(TString, Info)), Field(sName, TString)>>)

GoString(s) == [k |-> "string", v |-> s]

GoInt(i) == [k |-> "int", v |-> i]

InfoValue(name, age) == [k |-> "struct", v |-> <<GoString(name), GoInt(age)>>]

\* A Config the caller filled with defaults before the load.
ConfigDefaults ==
  [k |-> "struct",
   v |-> <<InfoValue(<<"b","o","b">>, 5), InfoValue(<<"e","v","e">>, 9),
           [k |-> "map", isnil |-> FALSE,
            v |-> [x \in {GoString(<<"k">>)} |-> InfoValue(<<"z">>, 1)]],
           GoString(<<"d","e","f">>)>>]

\* A PlayerProfile the caller filled with defaults before the load.
ProfileDefaults ==
  [k |-> "struct",
   v |-> << [k |-> "struct",
             v |-> <<GoString(<<"b","o","b">>), GoInt(5),
                     [k |-> "float32", v |-> <<1, 0>>]>>] >>]

\* A string as it is written in a document: the empty string is [].
Token(s) == IF s = <<>> THEN <<"[", "]">> ELSE s

RECURSIVE Body(_)
\* The values of a list, a string after a space and a list on a line of its
\* own.
Body(items) ==
  IF Len(items) = 0 THEN <<>>
  ELSE (IF items[1][1] = sexprOpen THEN <<"\n">> ELSE <<" ">>)
       \o items[1] \o Body(Tail(items))

\* The text of the list with this head and these values.
List(head, items) == <<sexprOpen>> \o Token(head) \o Body(items) \o <<sexprClose>>

RECURSIVE Lines(_)
\* A document of top-level lists, one to a line.
Lines(lists) ==
  IF Len(lists) = 0 THEN <<>>
  ELSE lists[1] \o (IF Len(lists) > 1 THEN <<"\n">> ELSE <<>>) \o Lines(Tail(lists))

sAl == <<"a","l">>

s30 == <<"3","0">>

s7 == <<"7">>

\* The values of the lists bound to an Info: bare strings and one-string lists.
InfoItems ==
  {sAl, s30, s7}
  \cup {List(sName, <<sAl>>), List(sAge, <<s30>>), List(<<"a","g","e">>, <<s30>>),
        List(sAge, <<s7>>), List(sBogus, <<sAl>>)}

SeqsUpTo(S, n) == UNION { [1..k -> S] : k \in 0..n }

\* Heads of the lists written where the root has a field of type Info.
FieldHeads == {sInfo, <<"i","n","f","o">>, sX, sBogus}

\* Heads of the entries of People, where every head is a key.
EntryHeads ==
  {<<>>, <<"-">>, <<"*">>, <<"u2022">>, <<"u2023">>,
   sInfo, sX, <<"i","n","f","o">>, <<"-","x">>, <<"k">>}

\* Documents of one top-level list for a Config.
ConfigSingles ==
  {List(h, b) : h \in FieldHeads, b \in SeqsUpTo(InfoItems, MaxItems)}
  \cup {List(sPeople, <<List(h, b)>>) :
          h \in EntryHeads, b \in SeqsUpTo(InfoItems, MaxItems)}
  \cup {List(h, <<sAl>>) : h \in {sName, <<"n","a","m","e">>}}

\* Top-level lists put together into documents of several lists.
ConfigParts ==
  {List(sName, <<sAl>>), List(<<"n","a","m","e">>, <<s30>>),
   List(sInfo, <<sAl, s30>>), List(sX, <<List(sAge, <<s30>>)>>),
   List(sBogus, <<sAl>>), List(sInfo, <<sAl, sAl>>), List(sName, <<>>),
   List(sPeople, <<List(sX, <<sAl, s30>>)>>)}

ConfigSeveral == {Lines(l) : l \in [1..2 -> ConfigParts]}

RECURSIVE Prefixes(_)
Prefixes(s) ==
  IF Len(s) = 0 THEN {<<>>} ELSE {s} \cup Prefixes(SubSeq(s, 1, Len(s) - 1))

\* Documents cut short, and documents with a string in the root node.
ConfigBroken ==
  Prefixes(<<"(","N","a","m","e"," ","u0060","a"," ","l","u0060",")","\n",
             "(","X"," ","[","a","]"," ","3","0",")">>)
  \cup {sAl, List(sName, <<sAl>>) \o <<" ">> \o sAl,
        <<";">> \o sAl \o <<"\n">> \o List(sName, <<sAl>>)}

ConfigDocs == ConfigSingles \cup ConfigSeveral \cup ConfigBroken

ProfileItems == {<<"a","b">>, <<"2">>, <<"2","0">>, <<"5",".","5">>}

\* Documents for a PlayerProfile: the field Info by order and by name.
ProfileDocs ==
  {List(h, b) : h \in {sInfo, sPlayerInfo}, b \in SeqsUpTo(ProfileItems, MaxItems)}
  \cup {List(sInfo, <<List(sUserName, <<u>>), List(sCurrentLevel, <<l>>),
                      List(sScore, <<sc>>)>>) :
          u \in {<<"a","b">>}, l \in {<<"2">>, <<"2","0">>}, sc \in {<<"5",".","5">>}}

\* Most values of a list bound to a sequence or a mapping.
MaxKids == 3

\* type Grid struct { M [][]int; A [2]int; G [2][2]int; R []Info;
\*                    P map[bool]int; K map[Info]int }
Grid ==
  TStruct(<<"G","r","i","d">>,
          <<Field(<<"M">>, TSlice(TSlice(TInt))),
            Field(<<"A">>, TArray(2, TInt)),
            Field(<<"G">>, TArray(2, TArray(2, TInt))),
            Field(<<"R">>, TSlice(Info)),
            Field(<<"P">>, TMap(TBool, TInt)),
            Field(<<"K">>, TMap(Info, TInt))>>)

GoSlice(elems) == [k |-> "slice", v |-> elems]

GoArray(elems) == [k |-> "array", v |-> elems]

GoBool(b) == [k |-> "bool", v |-> b]

\* A Grid the caller filled with defaults before the load.
GridDefaults ==
  [k |-> "struct",
   v |-> <<GoSlice(<<GoSlice(<<GoInt(1)>>)>>),
           GoArray(<<GoInt(5), GoInt(6)>>),
           GoArray(<<GoArray(<<GoInt(1), GoInt(2)>>),
                     GoArray(<<GoInt(3), GoInt(4)>>)>>),
           GoSlice(<<InfoValue(<<"b","o","b">>, 5)>>),
           [k |-> "map", isnil |-> FALSE,
            v |-> [x \in {GoBool(TRUE), GoBool(FALSE)} |-> GoInt(1)]],
           [k |-> "map", isnil |-> TRUE, v |-> <<>>]>>]

s10 == <<"1","0">>

s20 == <<"2","0">>

sRow == <<"R","o","w">>

sZz == <<"z","z">>

\* The values written in the list of each field of a Grid.
GridItems(f) ==
  CASE f = <<"M">> ->
         {s10, List(<<>>, <<s10, s20>>), List(<<>>, <<s7>>), List(<<>>, <<>>),
          List(sRow, <<s10, s20>>), List(<<"-">>, <<s10>>),
          List(<<>>, <<List(sX, <<s10>>)>>)}
    [] f = <<"A">> ->
         {s10, s20, s7, sZz, List(sX, <<s10>>), List(sX, <<s10, s20>>)}
    [] f = <<"G">> ->
         {s10, List(<<>>, <<s10, s20>>), List(<<>>, <<s30>>),
          List(sRow, <<s10>>), List(<<>>, <<s10, s20, s30>>)}
    [] f = <<"R">> ->
         {sAl, List(sInfo, <<sAl, s30>>), List(<<"-">>, <<sAl, s30>>),
          List(<<"-","x">>, <<sAl, s30>>), List(<<>>, <<sAl, s30>>),
          List(sRow, <<sAl, s30>>), List(sInfo, <<List(sName, <<sAl>>)>>),
          List(<<"-">>, <<List(sX, <<sAl>>), s30>>)}
    [] f = <<"P">> ->
         {s10, List(<<"y","e","s">>, <<s10>>), List(<<"t","r","u","e">>, <<s20>>),
          List(<<"n","o">>, <<s30>>), List(sZz, <<s10>>),
          List(<<"y","e","s">>, <<sZz>>), List(<<"y","e","s">>, <<s10, s20>>)}
    [] f = <<"K">> ->
         {sAl, List(sAl, <<s10>>), List(sAl, <<sZz>>)}

GridFields == {<<"M">>, <<"A">>, <<"G">>, <<"R">>, <<"P">>, <<"K">>}

\* Documents of one top-level list for a Grid.
GridDocs ==
  UNION {{List(f, b) : b \in SeqsUpTo(GridItems(f), MaxKids)} : f \in GridFields}

\* Most runes between the head of the list and the end of a document.
MaxTextLen == 6

\* type Text struct { A []string }
Text == TStruct(<<"T","e","x","t">>, <<Field(<<"A">>, TSlice(TString))>>)

\* The runes the values of the list are written with.
TextRunes == {"b", backtick, "[", "]", "\n"}

\* Documents of one list headed a: its values, and its closing parenthesis
\* or nothing more.
TextDocs ==
  {<<sexprOpen, "a", " ">> \o x \o t :
     x \in StringsUpTo(TextRunes, MaxTextLen), t \in {<<>>, <<sexprClose>>}}

\* Most parts a whole document is put together from.
MaxParts == 3

\* type Page struct { A []string }
Page == TStruct(<<"P","a","g","e">>, <<Field(<<"A">>, TSlice(TString))>>)

\* The double quote, U+0022.
quote == "u0022"

\* The pieces of text documents are made of: a whole list, the delimiters on
\* their own, a bare string, white space, a comment line, a rune that starts
\* no token, a bracketed string over two lines and a string in double quotes.
DocParts ==
  {<<sexprOpen, "a", " ", "b", sexprClose>>, <<sexprClose>>, <<"b">>, <<" ">>,
   <<"\n">>, <<";", "b", "\n">>, <<sexprOpen>>, <<sexprOpen, "a", " ">>,
   <<"]">>, <<"[", "b", "\n", "b", "]">>, <<quote, "b", " ", "b", quote>>}

RECURSIVE Concat(_)
Concat(parts) == IF parts = <<>> THEN <<>> ELSE parts[1] \o Concat(Tail(parts))

\* Documents of up to n parts.
DocsOf(n) == {Concat(ps) : ps \in SeqsUpTo(DocParts, n)}

PageDocs == DocsOf(MaxParts)

\* type Rows struct { S [][2]int; L []string }
Rows ==
  TStruct(<<"R","o","w","s">>,
          <<Field(<<"S">>, TSlice(TArray(2, TInt))),
            Field(<<"L">>, TSlice(TString))>>)

\* A Rows the caller filled with defaults before the load.
RowsDefaults ==
  [k |-> "struct",
   v |-> <<GoSlice(<<GoArray(<<GoInt(1), GoInt(2)>>)>>),
           GoSlice(<<GoString(<<"k">>)>>)>>]

s40 == <<"4","0">>

\* The values written in the list S: rows of two, a row of one, a string and
\* a list with a head.
RowItems ==
  {List(<<>>, <<s10, s20>>), List(<<>>, <<s30, s40>>), List(<<>>, <<s10>>), s10,
   List(sRow, <<s10, s20>>)}

\* The lists L of up to two strings.
WordLists == {List(<<"L">>, b) : b \in SeqsUpTo({sAl, s10}, 2)}

\* Documents for a Rows: one list S, or one or two lists L.
RowsDocs ==
  {List(<<"S">>, b) : b \in SeqsUpTo(RowItems, MaxKids)}
  \cup WordLists
  \cup {Lines(<<a, b>>) : a \in WordLists, b \in WordLists}

\* What the caller hands to LoadString: a pointer to a struct, zero or filled
\* with defaults.  type is the name of the pointed type.
Dests ==
  {[type |-> "Config", isPtr |-> TRUE, val |-> Zero(Config)],
   [type |-> "Config", isPtr |-> TRUE, val |-> ConfigDefaults],
   [type |-> "PlayerProfile", isPtr |-> TRUE, val |-> Zero(PlayerProfile)],
   [type |-> "PlayerProfile", isPtr |-> TRUE, val |-> ProfileDefaults]}

\* The type called name.
TypeNamed(name) ==
  CASE name = "Config" -> Config
    [] name = "PlayerProfile" -> PlayerProfile
    [] name = "Text" -> Text
    [] name = "Page" -> Page
    [] name = "Rows" -> Rows
    [] name = "Grid" -> Grid
    [] name = "int8" -> TInt8
    [] name = "uint8" -> TUint8
    [] name = "bool" -> TBool

DocsFor(name) ==
  CASE name = "Config" -> ConfigDocs
    [] name = "Grid" -> GridDocs
    [] name = "Text" -> TextDocs
    [] name = "Page" -> PageDocs
    [] name = "Rows" -> RowsDocs
    [] OTHER -> ProfileDocs

(***************************************************************************)
(* The program: one call of LoadString on a destination                    *)
(***************************************************************************)

NoResult == [kind |-> "none", msg |-> "", line |-> 0]

Init ==
  /\ \E d \in Dests : outType = d.type /\ isPtr = d.isPtr /\ pre = d.val /\ out = d.val
  /\ data = <<>>
  /\ tree = <<>>
  /\ res = NoResult
  /\ pc = "ready"

DoLoadString ==
  /\ pc = "ready"
  /\ \E d \in DocsFor(outType) :
       LET r == LoadString(d, isPtr, TypeNamed(outType), out)
       IN /\ data' = d
          /\ out' = r.val
          /\ tree' = r.tree
          /\ res' = [kind |-> r.kind, msg |-> r.msg, line |-> r.line]
  /\ pc' = "done"
  /\ UNCHANGED <<outType, isPtr, pre>>

Next == DoLoadString

Spec == Init /\ [][Next]_vars

\* A load into a Grid, zero or filled with defaults.
InitSeq ==
  /\ outType = "Grid" /\ isPtr = TRUE
  /\ pre \in {Zero(Grid), GridDefaults} /\ out = pre
  /\ data = <<>>
  /\ tree = <<>>
  /\ res = NoResult
  /\ pc = "ready"

SpecSeq == InitSeq /\ [][Next]_vars

\* A load into a zero Text.
InitText ==
  /\ outType = "Text" /\ isPtr = TRUE
  /\ pre = Zero(Text) /\ out = pre
  /\ data = <<>>
  /\ tree = <<>>
  /\ res = NoResult
  /\ pc = "ready"

SpecText == InitText /\ [][Next]_vars

\* A load of a whole document into a zero Page.
InitPage ==
  /\ outType = "Page" /\ isPtr = TRUE
  /\ pre = Zero(Page) /\ out = pre
  /\ data = <<>>
  /\ tree = <<>>
  /\ res = NoResult
  /\ pc = "ready"

SpecPage == InitPage /\ [][Next]_vars

\* What LoadString may be handed as out: a struct by value, a pointer to an
\* integer, a pointer to a struct.
OutArguments ==
  {[type |-> "PlayerProfile", isPtr |-> FALSE],
   [type |-> "int8", isPtr |-> TRUE],
   [type |-> "PlayerProfile", isPtr |-> TRUE]}

InitOut ==
  /\ \E d \in OutArguments :
       outType = d.type /\ isPtr = d.isPtr /\ pre = Zero(TypeNamed(d.type))
  /\ out = pre
  /\ data = <<>>
  /\ tree = <<>>
  /\ res = NoResult
  /\ pc = "ready"

SpecOut == InitOut /\ [][Next]_vars

\* A load into a Rows, zero or filled with defaults.
InitRows ==
  /\ outType = "Rows" /\ isPtr = TRUE
  /\ pre \in {Zero(Rows), RowsDefaults} /\ out = pre
  /\ data = <<>>
  /\ tree = <<>>
  /\ res = NoResult
  /\ pc = "ready"

SpecRows == InitRows /\ [][Next]_vars

(***************************************************************************)
(* What a state shows of a load                                            *)
(***************************************************************************)

Loaded == pc = "done" /\ outType \in {"Config", "PlayerProfile"}

\* A head with its first letter upper-cased.
Capitalized(s) == IF s = <<>> THEN s ELSE <<ToUpper(s[1])>> \o Tail(s)

\* The field of the root struct that a top-level list names, 0 for none.
RootField(n) == FieldByName(TypeNamed(outType), Capitalized(n.head.str))

\* The document is one list, and it names a field of struct type.
DirectSite ==
  /\ Loaded /\ Len(tree) = 1
  /\ RootField(tree[1]) # 0
  /\ TypeNamed(outType).fields[RootField(tree[1])].type.kind = "struct"

\* The document is the map People with one entry.
EntrySite ==
  /\ Loaded /\ outType = "Config" /\ Len(tree) = 1
  /\ tree[1].head.str = sPeople
  /\ Len(tree[1].values) = 1
  /\ tree[1].values[1].kind = "node"

\* The document holds one list that is bound to a record; these are the
\* list, the record type and the record before and after the load.
HasSite == DirectSite \/ EntrySite

SiteNode == IF DirectSite THEN tree[1] ELSE tree[1].values[1]

SiteType ==
  IF DirectSite THEN TypeNamed(outType).fields[RootField(tree[1])].type ELSE Info

SiteBefore == IF DirectSite THEN pre.v[RootField(tree[1])] ELSE Zero(Info)

EntryKey == GoString(tree[1].values[1].head.str)

SiteBound == DirectSite \/ (EntrySite /\ EntryKey \in DOMAIN out.v[3].v)

SiteAfter ==
  IF DirectSite THEN out.v[RootField(tree[1])] ELSE out.v[3].v[EntryKey]

SiteValues == SiteNode.values

SiteHead == SiteNode.head.str

AllLists(vs) == \A i \in 1..Len(vs) : vs[i].kind = "node"

AllStrings(vs) == \A i \in 1..Len(vs) : vs[i].kind = "string"

\* A list of exactly one string, such as (Age 30).
OneString(v) ==
  v.kind = "node" /\ Len(v.values) = 1 /\ v.values[1].kind = "string"

FieldNames(t) == {t.fields[i].name : i \in 1..Len(t.fields)}

\* A decimal integer literal: digits with no leading zero.
IsDecimal(s) ==
  /\ Len(s) > 0 /\ AllDigits(s)
  /\ (Len(s) > 1 => s[1] # "0")

DecimalValue(s) == DigitsValue(s, 10, 0)

PackErr(msg, line) == res.kind = "pack" /\ res.msg = msg /\ res.line = line

(***************************************************************************)
(* C1: for Info{Name string; Age int}, every name n and every in-range     *)
(* integer literal a, the spellings (Info n a), (bullet n a) and           *)
(* (X (Name n)(Age a)), X any head, all bind to the record {n, a}.         *)
(***************************************************************************)
C1_Spelling ==
  /\ HasSite /\ SiteType = Info /\ Len(SiteValues) = 2
  /\ \/ /\ AllStrings(SiteValues)
        /\ SiteHead = sInfo \/ SiteHead \in {<<b>> : b \in BulletRunes}
        /\ IsDecimal(SiteValues[2].str)
     \/ /\ OneString(SiteValues[1]) /\ SiteValues[1].head.str = sName
        /\ OneString(SiteValues[2]) /\ SiteValues[2].head.str = sAge
        /\ IsDecimal(SiteValues[2].values[1].str)

C1_Name ==
  IF SiteValues[1].kind = "string" THEN SiteValues[1].str
  ELSE SiteValues[1].values[1].str

C1_Age ==
  IF SiteValues[2].kind = "string" THEN SiteValues[2].str
  ELSE SiteValues[2].values[1].str

C1_ThreeSpellings ==
  C1_Spelling =>
    /\ res.kind = "ok"
    /\ SiteBound
    /\ SiteAfter = InfoValue(C1_Name, DecimalValue(C1_Age))

(***************************************************************************)
(* C2: the binding mode of a list bound to a record.  Only the by-order    *)
(* mode checks the head of the list against the type name and counts the   *)
(* values, so on a list whose head is neither a bullet nor the type name   *)
(* the by-order mode shows as one of its two errors raised on the list.    *)
(***************************************************************************)
ForeignHead ==
  /\ HasSite
  /\ SiteHead # SiteType.name
  /\ SiteHead = <<>> \/ SiteHead[1] \notin BulletRunes

ByOrderRejected ==
  \/ PackErr("too many values to fit into struct", SiteNode.lineNumber)
  \/ PackErr("bad value, expected type name", SiteNode.lineNumber)

HasStringValue == \E i \in 1..Len(SiteValues) : SiteValues[i].kind = "string"

HasForeignList ==
  \E i \in 1..Len(SiteValues) :
     /\ SiteValues[i].kind = "node"
     /\ SiteValues[i].head.str \notin FieldNames(SiteType)

\* C2 as claimed: the by-order mode is selected exactly when a direct value
\* is a string, and the heads of the values play no part.
C2_ModeByKindsOnly == ForeignHead => (ByOrderRejected <=> HasStringValue)

\* The head is the type name and the only value is a one-string list: by
\* name the string goes to the field the list names, by order to the first
\* field.
OwnHeadOneList ==
  /\ DirectSite /\ SiteType = Info /\ SiteHead = sInfo
  /\ Len(SiteValues) = 1 /\ OneString(SiteValues[1])
  /\ res.kind = "ok"

\* C2 as amended: a list (other than the root) is bound by name exactly when
\* every direct value is a list whose head is, as written, the name of a
\* field (no value at all included), and by order when a value is a string or
\* a list with any other head.
C2_ModeByKindsAndHeads ==
  /\ ForeignHead => (ByOrderRejected <=> (HasStringValue \/ HasForeignList))
  /\ OwnHeadOneList =>
       LET l == SiteValues[1].head.str
           s == SiteValues[1].values[1].str
       IN CASE l = sName -> SiteAfter = [SiteBefore EXCEPT !.v[1] = GoString(s)]
            [] l = sAge ->
                 SiteAfter = [SiteBefore EXCEPT !.v[2] = GoInt(DecimalValue(s))]
            [] OTHER -> SiteAfter = [SiteBefore EXCEPT !.v[1] = GoString(s)]

\* A list of lists only that is bound by order because of a head.
C2_Witness ==
  /\ ForeignHead /\ Len(SiteValues) > 0 /\ AllLists(SiteValues)
  /\ ByOrderRejected

(***************************************************************************)
(* C3: the lookup of a head among the field names, first letter upper-     *)
(* cased, and the "undefined field" error.                                 *)
(***************************************************************************)
Unmatched == {i \in 1..Len(tree) : RootField(tree[i]) = 0}

Min(S) == CHOOSE x \in S : \A y \in S : x <= y

\* In the root: a head that names no field stops the load with the error, on
\* the first such list; (name al) fills the field Name.
RootLookup ==
  /\ (Loaded /\ Unmatched # {}) => res.kind # "ok"
  /\ (Loaded /\ PackErr("undefined field", res.line)) =>
       /\ Unmatched # {}
       /\ res.line = tree[Min(Unmatched)].lineNumber
  /\ (Loaded /\ Len(tree) = 1 /\ Unmatched # {}) =>
       PackErr("undefined field", tree[1].lineNumber)
  /\ (/\ Loaded /\ outType = "Config" /\ Len(tree) = 1
      /\ Capitalized(tree[1].head.str) = sName
      /\ Len(tree[1].values) = 1 /\ tree[1].values[1].kind = "string") =>
       /\ res.kind = "ok"
       /\ out = [pre EXCEPT !.v[4] = GoString(tree[1].values[1].str)]

\* A nested list bound to an Info whose values are all one-string lists.
NestedLists ==
  /\ HasSite /\ SiteType = Info /\ Len(SiteValues) > 0
  /\ \A i \in 1..Len(SiteValues) : OneString(SiteValues[i])
  /\ res.kind # "panic"

NoSuchField ==
  {i \in 1..Len(SiteValues) :
     FieldByName(SiteType, Capitalized(SiteValues[i].head.str)) = 0}

\* The last value that names field f (after upper-casing), 0 for none.
LastNaming(f) ==
  LET S == {i \in 1..Len(SiteValues) :
              FieldByName(SiteType, Capitalized(SiteValues[i].head.str)) = f}
  IN IF S = {} THEN 0 ELSE CHOOSE x \in S : \A y \in S : y <= x

\* The record with every named field set from the last list that names it.
BoundByName ==
  [SiteBefore EXCEPT
     !.v[1] = IF LastNaming(1) = 0 THEN @
              ELSE GoString(SiteValues[LastNaming(1)].values[1].str),
     !.v[2] = IF LastNaming(2) = 0 THEN @
              ELSE GoInt(DecimalValue(SiteValues[LastNaming(2)].values[1].str))]

\* C3 as claimed: the same lookup in the root and in a nested record.
C3_LookupEverywhere ==
  /\ RootLookup
  /\ NestedLists =>
       IF NoSuchField # {}
       THEN PackErr("undefined field", SiteValues[Min(NoSuchField)].lineNumber)
       ELSE res.kind = "ok" /\ SiteBound /\ SiteAfter = BoundByName

\* C3 as amended: in the root every head is looked up with its first letter
\* upper-cased and a head that names no field is the "undefined field" error.
\* A nested list is bound by name only when every head is a field name as
\* written; then every list fills the field it names.  Otherwise it is bound
\* by order, and "undefined field" is never raised on a nested list.
C3_LookupInRoot ==
  /\ RootLookup
  /\ (NestedLists /\ ~HasForeignList) =>
       res.kind = "ok" /\ SiteBound /\ SiteAfter = BoundByName
  /\ (NestedLists /\ HasForeignList) => res.msg # "undefined field"

\* (name al) in the root has filled the field Name.
C3_Witness ==
  /\ Loaded /\ outType = "Config" /\ Len(tree) = 1
  /\ tree[1].head.str = <<"n","a","m","e">>
  /\ res.kind = "ok"
  /\ out.v[4] = GoString(sAl) /\ pre.v[4] # GoString(sAl)

(***************************************************************************)
(* C4: which heads the by-order mode accepts.                              *)
(***************************************************************************)
TooMany == Len(SiteValues) > Len(SiteType.fields)

HeadRejected == PackErr("bad value, expected type name", SiteNode.lineNumber)

C5_ByFieldOrder ==
  (/\ Loaded /\ outType = "PlayerProfile" /\ Len(tree) = 1
   /\ tree[1].head.str = sInfo
   /\ Len(tree[1].values) = 3 /\ AllStrings(tree[1].values)
   /\ IsDecimal(tree[1].values[2].str)
   /\ ParseFloat(tree[1].values[3].str).ok) =>
     /\ res.kind = "ok"
     /\ out.v[1] =
          [k |-> "struct",
           v |-> <<GoString(tree[1].values[1].str),
                   GoInt(DecimalValue(tree[1].values[2].str)),
                   [k |-> "float32", v |-> ParseFloat(tree[1].values[3].str).v]>>]

(***************************************************************************)
(* C9: binding a record leaves every field the input does not name (by     *)
(* name) or does not reach (by order, fewer values than fields) at the     *)
(* value the destination held before; only the fields with a value of      *)
(* their own are written.  It is so in the root, which is bound by name,   *)
(* and in a list bound to a record by name or by order.                    *)
(***************************************************************************)
NamedInRoot == {RootField(tree[i]) : i \in 1..Len(tree)}

NamedInSite ==
  {FieldByName(SiteType, SiteValues[i].head.str) : i \in 1..Len(SiteValues)}

\* The list of the site is bound by name.
SiteByName == HasSite /\ SiteBound /\ AllLists(SiteValues) /\ ~HasForeignList

\* The list of the site is bound by order.
SiteByOrder == HasSite /\ SiteBound /\ (HasStringValue \/ HasForeignList)

C9_UnnamedFieldsKept ==
  /\ Loaded =>
       \A f \in 1..Len(TypeNamed(outType).fields) :
          f \notin NamedInRoot => out.v[f] = pre.v[f]
  /\ SiteByName =>
       \A g \in 1..Len(SiteType.fields) :
          g \notin NamedInSite => SiteAfter.v[g] = SiteBefore.v[g]
  /\ SiteByOrder =>
       \A g \in 1..Len(SiteType.fields) :
          g > Len(SiteValues) => SiteAfter.v[g] = SiteBefore.v[g]

\* (Info (Age 30)) has been loaded into a Config holding defaults: Info.Name
\* and the fields X, People and Name of the root keep their defaults, and
\* Info.Age is 30.
C9_Witness ==
  /\ DirectSite /\ pre = ConfigDefaults /\ res.kind = "ok"
  /\ SiteHead = sInfo /\ SiteByName /\ NamedInSite = {2}
  /\ out = [pre EXCEPT !.v[1].v[2] = GoInt(30)]

(***************************************************************************)
(* C10: a load that returns a parse error or a bind error leaves the       *)
(* destination equal to what it was before the call: no field bound from   *)
(* an earlier value of the document stays modified.                        *)
(***************************************************************************)
C10_NoPartialResult ==
  (Loaded /\ res.kind \in {"parse", "pack"}) => out = pre

(***************************************************************************)
(* The program on one scalar field: a string of the document is packed     *)
(* into a field of kind int8, uint8 or bool                                *)
(***************************************************************************)

\* Longest integer literal.
MaxLitLen == 5

\* Longest literal written with the letters of yes and no.
MaxBoolLen == 3

\* The runes of the integer literals.
LitRunes == {"0", "1", "2", "5", "6", "x", "b", "F", "-"}

IntLits == StringsUpTo(LitRunes, MaxLitLen)

BoolLits ==
  StringsUpTo({"y", "Y", "e", "E", "s", "S", "n", "N", "o", "O"}, MaxBoolLen)
  \cup {<<"0">>, <<"1">>, <<"2">>, <<"t">>, <<"T">>, <<"f">>, <<"F">>,
        <<"t","r","u","e">>, <<"T","r","u","e">>, <<"T","R","U","E">>,
        <<"t","R","U","E">>, <<"f","a","l","s","e">>, <<"F","a","l","s","e">>,
        <<"F","A","L","S","E">>, <<"f","a","l","s","E">>, <<"o","n">>,
        <<"o","f","f">>}

LitsFor(name) == IF name = "bool" THEN BoolLits ELSE IntLits

\* The fields a string is packed into, zero or holding a default.
ScalarDests ==
  {[type |-> "int8", val |-> [k |-> "int8", v |-> 0]],
   [type |-> "int8", val |-> [k |-> "int8", v |-> 7]],
   [type |-> "uint8", val |-> [k |-> "uint8", v |-> 0]],
   [type |-> "uint8", val |-> [k |-> "uint8", v |-> 7]],
   [type |-> "bool", val |-> [k |-> "bool", v |-> FALSE]],
   [type |-> "bool", val |-> [k |-> "bool", v |-> TRUE]]}

InitCoerce ==
  /\ \E d \in ScalarDests : outType = d.type /\ pre = d.val /\ out = d.val
  /\ isPtr = TRUE
  /\ data = <<>>
  /\ tree = <<>>
  /\ res = NoResult
  /\ pc = "ready"

\* str.packIntoField(field) for the string of a one-line document.
DoPackString ==
  /\ pc = "ready"
  /\ \E lit \in LitsFor(outType) :
       With(strPackIntoField(selfString(lit, 1), TypeNamed(outType), out),
            LAMBDA r :
         /\ data' = lit
         /\ out' = r.val
         /\ res' = [kind |-> IF r.st = "err" THEN "pack" ELSE r.st,
                    msg |-> r.msg, line |-> r.line])
  /\ pc' = "done"
  /\ UNCHANGED <<outType, isPtr, pre, tree>>

NextCoerce == DoPackString

SpecCoerce == InitCoerce /\ [][NextCoerce]_vars

\* A string has been packed into a field of kind int8 or uint8.
CoercedInt == pc = "done" /\ outType \in {"int8", "uint8"}

\* A string has been packed into a field of kind bool.
CoercedBool == pc = "done" /\ outType = "bool"

\* v is a value of the integer kind called name.
InRange(v, name) ==
  IF name = "int8" THEN v \in -128..127 ELSE v \in 0..255

CannotConvert == res.kind = "pack" /\ res.msg = "cannot convert value to type"

(***************************************************************************)
(* C6: every decimal literal whose value fits the kind of the field binds  *)
(* to that value whatever its length, one-rune literals such as 2 and 0    *)
(* included, and the empty literal ends in a conversion error, not in an   *)
(* abort.                                                                   *)
(***************************************************************************)
C6_DecimalAnyLength ==
  /\ (CoercedInt /\ IsDecimal(data) /\ InRange(DecimalValue(data), outType)) =>
       /\ res.kind = "ok"
       /\ out = [k |-> outType, v |-> DecimalValue(data)]
  /\ (CoercedInt /\ data = <<>>) => CannotConvert

\* The literal without its sign.
Magnitude(s) == IF s # <<>> /\ s[1] = "-" THEN Tail(s) ELSE s

\* The radix the prefix of an unsigned literal selects.
Radix(m) ==
  IF Len(m) >= 2 /\ m[1] = "0" /\ m[2] = "x" THEN 16
  ELSE IF Len(m) >= 2 /\ m[1] = "0" /\ m[2] = "b" THEN 2
  ELSE IF Len(m) >= 2 /\ m[1] = "0" THEN 8
  ELSE 10

\* The digits after the prefix.
RadixDigits(m) ==
  IF Radix(m) \in {16, 2} THEN SubSeq(m, 3, Len(m))
  ELSE IF Radix(m) = 8 THEN Tail(m)
  ELSE m

\* An integer literal: a prefix and at least one digit of its radix, after
\* a minus sign where the kind is signed.
WellFormed(s, signed) ==
  /\ RadixDigits(Magnitude(s)) # <<>>
  /\ \A i \in 1..Len(RadixDigits(Magnitude(s))) :
        DigitVal(RadixDigits(Magnitude(s))[i]) < Radix(Magnitude(s))
  /\ (s[1] = "-" => signed)

RECURSIVE ValueIn(_, _)
\* The number the digits ds write in base b.
ValueIn(ds, b) ==
  IF ds = <<>> THEN 0
  ELSE ValueIn(SubSeq(ds, 1, Len(ds) - 1), b) * b + DigitVal(ds[Len(ds)])

\* The number an integer literal writes.
LitValue(s) ==
  (IF s[1] = "-" THEN -1 ELSE 1)
  * ValueIn(RadixDigits(Magnitude(s)), Radix(Magnitude(s)))

(***************************************************************************)
(* C7: the radix of an integer literal comes from its prefix (0x sixteen,  *)
(* 0b two, a leading 0 eight, ten otherwise) and the value never wraps: a  *)
(* literal whose value is in the range of the 8-bit kind binds to exactly  *)
(* that value, a literal out of the range ends in a bind error.            *)
(***************************************************************************)
C7_RadixNoWrap ==
  (CoercedInt /\ WellFormed(data, outType = "int8")) =>
     IF InRange(LitValue(data), outType)
     THEN res.kind = "ok" /\ out = [k |-> outType, v |-> LitValue(data)]
     ELSE res.kind = "pack" /\ out = pre

\* The boolean literals in lower case.
InLowerCase(s) ==
  [i \in 1..Len(s) |->
     CASE s[i] = "Y" -> "y" [] s[i] = "E" -> "e" [] s[i] = "S" -> "s"
       [] s[i] = "N" -> "n" [] s[i] = "O" -> "o" [] OTHER -> s[i]]

BoolBound(b) == res.kind = "ok" /\ out = [k |-> "bool", v |-> b]

(***************************************************************************)
(* C8 as stated: a boolean field takes 0, 1, true, false and every         *)
(* letter-case variant of y, yes (true) and n, no (false); every other     *)
(* string ends in a conversion error.                                      *)
(***************************************************************************)
C8_EveryCaseVariant ==
  CoercedBool =>
    IF data \in {<<"1">>, <<"t","r","u","e">>}
         \/ InLowerCase(data) \in {<<"y">>, <<"y","e","s">>}
    THEN BoolBound(TRUE)
    ELSE IF data \in {<<"0">>, <<"f","a","l","s","e">>}
              \/ InLowerCase(data) \in {<<"n">>, <<"n","o">>}
    THEN BoolBound(FALSE)
    ELSE CannotConvert /\ out = pre

TrueLiterals ==
  {<<"1">>, <<"t">>, <<"T">>, <<"t","r","u","e">>, <<"T","r","u","e">>,
   <<"T","R","U","E">>, <<"y">>, <<"y","e","s">>, <<"Y","e","s">>,
   <<"Y","E","S">>}

FalseLiterals ==
  {<<"0">>, <<"f">>, <<"F">>, <<"f","a","l","s","e">>, <<"F","a","l","s","e">>,
   <<"F","A","L","S","E">>, <<"n">>, <<"n","o">>, <<"N","o">>, <<"N","O">>}

(***************************************************************************)
(* C8: a boolean field takes exactly 1, t, T, true, True, TRUE, y, yes,    *)
(* Yes, YES as true and 0, f, F, false, False, FALSE, n, no, No, NO as     *)
(* false; every other string, the other letter-case variants such as Y,   *)
(* N, yEs and nO included, ends in a conversion error and leaves the field *)
(* as it was.                                                              *)
(***************************************************************************)
C8_ListedSpellings ==
  CoercedBool =>
    IF data \in TrueLiterals THEN BoolBound(TRUE)
    ELSE IF data \in FalseLiterals THEN BoolBound(FALSE)
    ELSE CannotConvert /\ out = pre

\* The variant yEs of yes has been refused, the field holding TRUE before and
\* after.
C8_Witness ==
  /\ CoercedBool /\ data = <<"y","E","s">> /\ pre.v = TRUE
  /\ CannotConvert /\ out = pre

(***************************************************************************)
(* Loads into a Grid: what a state shows of the one list of the document.  *)
(***************************************************************************)
GridLoaded == pc = "done" /\ outType = "Grid" /\ Len(tree) = 1

\* The field of Grid the list names, 0 for none.
GridField == RootField(tree[1])

GridType == Grid.fields[GridField].type

GridBefore == pre.v[GridField]

GridAfter == out.v[GridField]

Kids == tree[1].values

CompoundKinds == {"slice", "array", "struct", "map"}

\* The list is bound to a slice or an array.
SeqSite == GridLoaded /\ GridField # 0 /\ GridType.kind \in {"slice", "array"}

\* The line an error about value n carries: that of the string, or of the
\* opening of the list.
LineOf(n) == n.lineNumber

\* Elements j, j+1, ... of the sequence hold nothing new.
NothingBoundFrom(j) ==
  IF GridType.kind = "slice"
  THEN Len(GridAfter.v) <= Len(GridBefore.v) + j - 1
  ELSE \A i \in j..GridType.len : GridAfter.v[i] = GridBefore.v[i]

\* The values before j did not stop the bind of the sequence.
ReachedKid(j) ==
  IF GridType.kind = "slice"
  THEN Len(GridAfter.v) = Len(GridBefore.v) + j - 1
  ELSE j = 1 /\ Len(Kids) <= GridType.len

\* The head the element type asks of a list, as the claim words it.
LabelIsMarkerOrName(label, elemType) ==
  IF elemType.kind \in {"slice", "array"} THEN label = <<>>
  ELSE label \in {<<b>> : b \in BulletRunes} \/ label = elemType.name

\* The head the element type asks of a list: a first rune that is a bullet.
LabelFits(label, elemType) ==
  IF elemType.kind \in {"slice", "array"} THEN label = <<>>
  ELSE (label # <<>> /\ label[1] \in BulletRunes) \/ label = elemType.name

\* The first value of the list that is a string or a list with a head that
\* Fits(head, element type) refuses; 0 when there is none.
FirstOffender(Fits(_, _)) ==
  LET bad == {i \in 1..Len(Kids) :
                \/ Kids[i].kind = "string"
                \/ ~Fits(Kids[i].head.str, GridType.elem)}
  IN IF bad = {} THEN 0 ELSE CHOOSE i \in bad : \A j \in bad : i <= j

CheckMessages ==
  {"compound kind expected a list of values",
   "slice head has value instead of []",
   "struct head has value instead of bullet or type name"}

\* The load failed, value j was refused by the check on it when the bind got
\* that far, and nothing was bound from it on.
RefusedAt(j) ==
  /\ res.kind # "ok"
  /\ NothingBoundFrom(j)
  /\ ReachedKid(j) =>
        /\ res.kind = "pack" /\ res.msg \in CheckMessages
        /\ res.line = IF Kids[j].kind = "string" THEN LineOf(Kids[j])
                                                 ELSE LineOf(Kids[j].head)

ScalarKinds == IntKinds \cup UintKinds \cup FloatKinds \cup {"bool", "string"}

\* A value of the sequence of scalars is a list.
ListForScalarElement ==
  /\ SeqSite /\ GridType.elem.kind \in ScalarKinds
  /\ \E i \in 1..Len(Kids) : Kids[i].kind = "node"

\* A list of the slice of records has strings among its values, so that it
\* is bound field by field, and a list where a scalar field stands.
ListForScalarField ==
  /\ SeqSite /\ GridType.elem.kind = "struct"
  /\ \E i \in 1..Len(Kids) :
       /\ Kids[i].kind = "node"
       /\ \E j \in 1..Len(Kids[i].values) : Kids[i].values[j].kind = "string"
       /\ \E j \in 1..Len(Kids[i].values) :
            /\ j <= Len(GridType.elem.fields)
            /\ Kids[i].values[j].kind = "node"
            /\ GridType.elem.fields[j].type.kind \in ScalarKinds

C12_ListNeverScalar ==
  (ListForScalarElement \/ ListForScalarField) => res.kind # "ok"

(***************************************************************************)
(* C13: a list of k values bound to an array of length n: when k > n the   *)
(* load fails with the bind error of the list and the array is as before;  *)
(* when k <= n, value i is bound to element i, in order, and the elements  *)
(* after the k-th are as before.                                           *)
(***************************************************************************)
ArraySite == SeqSite /\ GridType.kind = "array"

\* Element after holds what value n says, before being what it held.
HoldsValue(n, elemType, before, after) ==
  IF n.kind = "string"
  THEN after = GoInt(DecimalValue(n.str))
  ELSE IF elemType.kind = "array"
  THEN \A j \in 1..elemType.len :
         IF j > Len(n.values) THEN after.v[j] = before.v[j]
         ELSE n.values[j].kind = "string"
                => after.v[j] = GoInt(DecimalValue(n.values[j].str))
  ELSE TRUE

C13_ArrayLength ==
  ArraySite =>
    IF Len(Kids) > GridType.len
    THEN /\ PackErr("too many values to fit into array", LineOf(tree[1]))
         /\ GridAfter = GridBefore
    ELSE /\ \A i \in (Len(Kids) + 1)..GridType.len : GridAfter.v[i] = GridBefore.v[i]
         /\ res.kind = "ok" =>
              \A i \in 1..Len(Kids) :
                HoldsValue(Kids[i], GridType.elem, GridBefore.v[i], GridAfter.v[i])

\* One value bound to the array of two that held 5 and 6.
C13_Witness ==
  /\ ArraySite /\ GridType = TArray(2, TInt)
  /\ res.kind = "ok" /\ Len(Kids) = 1 /\ Kids[1].kind = "string"
  /\ GridBefore = GoArray(<<GoInt(5), GoInt(6)>>)
  /\ GridAfter = GoArray(<<GoInt(DecimalValue(Kids[1].str)), GoInt(6)>>)

\* Three values for the array of two: refused.
C13_WitnessTooMany ==
  /\ ArraySite /\ Len(Kids) = 3 /\ GridType.len = 2
  /\ res.kind = "pack" /\ GridAfter = GridBefore

(***************************************************************************)
(* C14: a list bound to a map: a value that is a string makes the load     *)
(* fail with a bind error; after a successful load the head of every value *)
(* read as a key is in the map, with the body of the last value in source  *)
(* order whose head reads as that key.                                     *)
(***************************************************************************)
MapSite ==
  /\ GridLoaded /\ GridField # 0 /\ GridType.kind = "map"
  /\ GridType.key.kind = "bool"

\* The key a head stands for in a map with boolean keys.
KeyOf(n) == GoBool(n.head.str \in TrueLiterals)

\* The first value that is a string, 0 when all are lists.
FirstString ==
  LET bad == {i \in 1..Len(Kids) : Kids[i].kind = "string"}
  IN IF bad = {} THEN 0 ELSE CHOOSE i \in bad : \A j \in bad : i <= j

\* The last value whose head reads as key.
LastFor(key) ==
  CHOOSE i \in 1..Len(Kids) :
    /\ KeyOf(Kids[i]) = key
    /\ \A j \in (i + 1)..Len(Kids) : KeyOf(Kids[j]) # key

C14_MapOfLists ==
  MapSite =>
    /\ FirstString # 0 =>
         /\ res.kind # "ok"
         /\ (FirstString = 1 =>
               PackErr("field should be only made of lists", LineOf(Kids[1])))
    /\ res.kind = "ok" =>
         \A i \in 1..Len(Kids) :
           /\ Kids[i].head.str \in TrueLiterals \cup FalseLiterals
           /\ KeyOf(Kids[i]) \in DOMAIN GridAfter.v
           /\ GridAfter.v[KeyOf(Kids[i])] =
                GoInt(DecimalValue(Kids[LastFor(KeyOf(Kids[i]))].values[1].str))

\* yes and true name the same key: the value of the later one is kept.
C14_Witness ==
  /\ MapSite /\ res.kind = "ok" /\ Len(Kids) >= 2
  /\ \E i, j \in 1..Len(Kids) :
       /\ i < j /\ Kids[i].head.str # Kids[j].head.str
       /\ KeyOf(Kids[i]) = KeyOf(Kids[j]) /\ LastFor(KeyOf(Kids[i])) = j
       /\ Kids[i].values[1].str # Kids[j].values[1].str
       /\ GridAfter.v[KeyOf(Kids[i])] = GoInt(DecimalValue(Kids[j].values[1].str))

(***************************************************************************)
(* C15: a list bound to a map whose key kind is compound ends in a bind    *)
(* error: the load neither succeeds nor aborts.                            *)
(***************************************************************************)
CompoundKeySite ==
  /\ GridLoaded /\ GridField # 0 /\ GridType.kind = "map"
  /\ GridType.key.kind \in CompoundKinds

C15_CompoundKeyRefused == CompoundKeySite => res.kind = "pack"

(***************************************************************************)
(* One parsed tree bound several times.  LoadString parses and binds in    *)
(* one call; here the two halves are steps of their own, so that the tree  *)
(* built by parseNodeBody is bound to one destination after another.       *)
(***************************************************************************)
\* Most values of the lists of a Grid in the documents bound several times.
MaxBindKids == 1

BindDocs ==
  ConfigParts \cup ConfigSeveral
  \cup UNION {{List(f, b) : b \in SeqsUpTo(GridItems(f), MaxBindKids)} :
                f \in GridFields}

\* The destinations a tree is bound to, each zero or filled.
BindDests ==
  Dests \cup {[type |-> "Grid", isPtr |-> TRUE, val |-> Zero(Grid)],
              [type |-> "Grid", isPtr |-> TRUE, val |-> GridDefaults]}

\* rootNode.packToStructByFieldName(v.Elem()) of LoadString.
BindRoot(values, t, cur) ==
  packToStructByFieldName(
    selfNode(selfString(<<"r","o","o","t">>, 0), values, 0, TRUE), t, cur)

\* A bind that takes the values it has bound out of the tree.
ValuesAfterBind_Consumed(values, r) ==
  IF r.st = "ok" THEN <<>> ELSE values

\* The values of the root after a bind that ended in r: the pack methods
\* read node.head and node.values and assign neither.
ValuesAfterBind(values, r) == values

InitBind ==
  /\ outType \in {"Config", "Grid"} /\ isPtr = TRUE
  /\ pre = Zero(TypeNamed(outType)) /\ out = pre
  /\ data = <<>>
  /\ tree = <<>>
  /\ res = NoResult
  /\ pc = "ready"

\* p.parseNodeBody(true) on a document that parses.
DoParse ==
  /\ pc = "ready"
  /\ \E d \in BindDocs :
       With(parseNodeBody(NewParser(d), TRUE), LAMBDA b :
         /\ b.st = "ok"
         /\ data' = d
         /\ tree' = b.val)
  /\ pc' = "parsed"
  /\ UNCHANGED <<outType, isPtr, pre, out, res>>

\* The first bind: into a new zero value of the type outType names.
DoBindFirst ==
  /\ pc = "parsed"
  /\ With(BindRoot(tree, TypeNamed(outType), Zero(TypeNamed(outType))), LAMBDA r :
       /\ pre' = r.val
       /\ out' = r.val
       /\ res' = [kind |-> IF r.st = "err" THEN "pack" ELSE r.st,
                  msg |-> r.msg, line |-> r.line]
       /\ tree' = ValuesAfterBind(tree, r))
  /\ pc' = "bound"
  /\ UNCHANGED <<data, outType, isPtr>>

\* One more bind, to any destination; a bind that panicked ended the program.
DoBindOther ==
  /\ pc = "bound" /\ res.kind # "panic"
  /\ \E d \in BindDests :
       With(BindRoot(tree, TypeNamed(d.type), d.val), LAMBDA r :
         /\ out' = r.val
         /\ res' = [kind |-> IF r.st = "err" THEN "pack" ELSE r.st,
                    msg |-> r.msg, line |-> r.line]
         /\ tree' = ValuesAfterBind(tree, r))
  /\ UNCHANGED <<data, outType, isPtr, pre, pc>>

\* The bind of DoBindFirst once more, into a new zero value.
DoBindAgain ==
  /\ pc = "bound" /\ res.kind # "panic"
  /\ With(BindRoot(tree, TypeNamed(outType), Zero(TypeNamed(outType))), LAMBDA r :
       /\ out' = r.val
       /\ res' = [kind |-> IF r.st = "err" THEN "pack" ELSE r.st,
                  msg |-> r.msg, line |-> r.line]
       /\ tree' = ValuesAfterBind(tree, r))
  /\ pc' = "again"
  /\ UNCHANGED <<data, outType, isPtr, pre>>

NextBind == DoParse \/ DoBindFirst \/ DoBindOther \/ DoBindAgain

SpecBind == InitBind /\ [][NextBind]_vars

(***************************************************************************)
(* C16: binding only reads the tree.  After any number of binds the tree   *)
(* is the one the parser built from the document (heads, strings, order    *)
(* and line numbers), and the bind of the first descriptor made once more  *)
(* into a new destination gives the value the first bind gave.             *)
(***************************************************************************)
ParsedValues == parseNodeBody(NewParser(data), TRUE).val

TextLoaded == pc = "done" /\ outType = "Text"

\* The list of the document is closed by the last rune of the document.
Closed == data[Len(data)] = sexprClose

\* The text of the values.
Arg == SubSeq(data, 4, IF Closed THEN Len(data) - 1 ELSE Len(data))

\* The strings bound to the field A.
Strings == [i \in 1..Len(out.v[1].v) |-> out.v[1].v[i].v]

RECURSIVE CloseAt(_, _)
\* Where the quoted string read from rune i of x on is closed: at the first
\* marker that is not one of a pair; 0 when there is none.
CloseAt(x, i) ==
  IF i > Len(x) THEN 0
  ELSE IF x[i] # backtick THEN CloseAt(x, i + 1)
  ELSE IF i < Len(x) /\ x[i + 1] = backtick THEN CloseAt(x, i + 2)
  ELSE i

RECURSIVE Unquoted(_, _, _)
\* The runes i .. j of a quoted string, each pair of markers being one.
Unquoted(x, i, j) ==
  IF i > j THEN <<>>
  ELSE IF x[i] = backtick THEN <<backtick>> \o Unquoted(x, i + 2, j)
  ELSE <<x[i]>> \o Unquoted(x, i + 1, j)

\* The values are one quoted string, and the list is closed.
OneQuoted ==
  /\ TextLoaded /\ Closed /\ Len(Arg) >= 2
  /\ Arg[1] = backtick /\ CloseAt(Arg, 2) = Len(Arg)

(***************************************************************************)
(* C17: a quoted string runs up to the first marker that is not doubled,   *)
(* and a doubled marker stands for one marker in the string: the list of   *)
(* the one value `b``b` binds the one string b`b.                          *)
(***************************************************************************)
C17_DoubledMarkerKept ==
  OneQuoted =>
    /\ res.kind = "ok"
    /\ Strings = <<Unquoted(Arg, 2, Len(Arg) - 1)>>

(***************************************************************************)
(* C18: a bracketed string is the text between the opening bracket and the *)
(* closing bracket that matches it, inner pairs of brackets being kept as  *)
(* written: the depth is 1 after the opening bracket and the string ends   *)
(* at the first closing bracket that brings it to 0.                       *)
(***************************************************************************)
RECURSIVE MatchAt(_, _, _)
\* Where the depth, level before rune i of x, first comes to 0; 0 for nowhere.
MatchAt(x, i, level) ==
  IF i > Len(x) THEN 0
  ELSE IF x[i] = "]" THEN (IF level = 1 THEN i ELSE MatchAt(x, i + 1, level - 1))
  ELSE IF x[i] = "[" THEN MatchAt(x, i + 1, level + 1)
  ELSE MatchAt(x, i + 1, level)

\* The values begin with a bracketed string that has its closing bracket,
\* and the document goes on after it.
BracketedFirst ==
  /\ TextLoaded /\ Arg # <<>> /\ Arg[1] = "["
  /\ MatchAt(Arg, 2, 1) # 0
  /\ (MatchAt(Arg, 2, 1) = Len(Arg) => Closed)

C18_BalancedBrackets ==
  BracketedFirst =>
    /\ res.kind = "ok" =>
         /\ Len(Strings) >= 1
         /\ Strings[1] = SubSeq(Arg, 2, MatchAt(Arg, 2, 1) - 1)
    /\ MatchAt(Arg, 2, 1) = Len(Arg) =>
         /\ res.kind = "ok"
         /\ Strings = <<SubSeq(Arg, 2, Len(Arg) - 1)>>

\* [[b]b] is the string [b]b.
C18_Witness ==
  /\ BracketedFirst /\ res.kind = "ok"
  /\ Arg = <<"[", "[", "b", "]", "b", "]">>
  /\ Strings = << <<"[", "b", "]", "b">> >>

(***************************************************************************)
(* C19: a quoted or bracketed string ends in the parse error "unexpected   *)
(* end of data while parsing string", with the line where the string       *)
(* began, exactly when the data ends before its closing marker; a string   *)
(* that has its closing marker is parsed wherever it stands, the closing   *)
(* marker being the last rune of the input included.                       *)
(***************************************************************************)
\* The values begin with a quoted or a bracketed string.
DelimitedFirst == TextLoaded /\ Arg # <<>> /\ Arg[1] \in {"[", backtick}

\* Where that string is closed, 0 for nowhere.
EndAt == IF Arg[1] = "[" THEN MatchAt(Arg, 2, 1) ELSE CloseAt(Arg, 2)

\* The error of a string begun on the first line.
EndOfDataError ==
  /\ res.kind = "parse"
  /\ res.msg = "unexpected end of data while parsing string"
  /\ res.line = 1

\* The string is not closed, or it is all there is of values.
C19_ErrorIffUnclosed ==
  (DelimitedFirst /\ EndAt \in {0, Len(Arg)}) => (EndOfDataError <=> EndAt = 0)

(***************************************************************************)
(* C20: the end of the data inside a list that is not the root is          *)
(* tolerated: a document such as (a b, with the closing parenthesis        *)
(* missing, loads with the values read so far and without an error.        *)
(***************************************************************************)
RECURSIVE Words(_, _)
\* The bare strings of a text of letters and line ends, w being the letters
\* of the word that is being read.
Words(x, w) ==
  IF x = <<>> THEN (IF w = <<>> THEN <<>> ELSE <<w>>)
  ELSE IF x[1] = "\n"
  THEN (IF w = <<>> THEN <<>> ELSE <<w>>) \o Words(Tail(x), <<>>)
  ELSE Words(Tail(x), Append(w, x[1]))

\* The list is not closed, and its values are bare strings.
OpenListOfWords ==
  /\ TextLoaded /\ ~Closed
  /\ \A i \in 1..Len(Arg) : Arg[i] \in {"b", "\n"}

C20_EndOfDataTolerated ==
  OpenListOfWords => res.kind = "ok" /\ Strings = Words(Arg, <<>>)

(***************************************************************************)
(* Loads of whole documents into a Page.                                   *)
(***************************************************************************)
PageLoaded == pc = "done" /\ outType = "Page"

\* The parser returned a tree: the load succeeded or ended in the packer.
ParseOk == res.kind \in {"ok", "pack", "panic"}

ParseErr(msg) == res.kind = "parse" /\ res.msg = msg

RECURSIVE RootString(_, _, _, _)
\* From rune i of x on, depth lists being open, a rune other than white
\* space, a parenthesis or a comment stands outside every list.
RootString(x, i, depth, inComment) ==
  IF i > Len(x) THEN FALSE
  ELSE IF inComment THEN RootString(x, i + 1, depth, x[i] # "\n")
  ELSE IF x[i] = sexprOpen THEN RootString(x, i + 1, depth + 1, FALSE)
  ELSE IF x[i] = sexprClose
  THEN RootString(x, i + 1, IF depth > 0 THEN depth - 1 ELSE 0, FALSE)
  ELSE IF x[i] \in {" ", "\n"} \/ depth > 0 THEN RootString(x, i + 1, depth, FALSE)
  ELSE IF x[i] \in {";", "#"} THEN RootString(x, i + 1, depth, TRUE)
  ELSE TRUE

(***************************************************************************)
(* C21: the values of the root of a parsed tree are all lists, and a       *)
(* document with a string outside every list is refused with the parse     *)
(* error "Unexpected string in root node".                                 *)
(***************************************************************************)
C21_RootHoldsListsOnly ==
  PageLoaded =>
    /\ ParseOk => \A i \in 1..Len(tree) : tree[i].kind = "node"
    /\ RootString(data, 1, 0, FALSE) => ParseErr("Unexpected string in root node")

(***************************************************************************)
(* A document parsed as it is, and parsed again with a comment line put    *)
(* into it.                                                                *)
(***************************************************************************)
\* Most parts of the documents a comment is put into.
MaxCommentParts == 2

CommentDocs == DocsOf(MaxCommentParts)

\* Comment lines: either marker, a text without line feed, the line feed.
CommentLines ==
  {<<mark>> \o c \o <<"\n">> : mark \in {";", "#"}, c \in {<<>>, <<" ", sexprOpen, "]">>}}

RECURSIVE DepthAt(_, _)
\* The lists open after the first i runes of x.
DepthAt(x, i) ==
  IF i = 0 THEN 0
  ELSE IF x[i] = sexprOpen THEN DepthAt(x, i - 1) + 1
  ELSE IF x[i] = sexprClose /\ DepthAt(x, i - 1) > 0 THEN DepthAt(x, i - 1) - 1
  ELSE DepthAt(x, i - 1)

\* Where a comment line is put: before the document, or in the body of a
\* list after white space, outside every delimited string and comment.
Places(x) ==
  {0} \cup
  {i \in 1..Len(x) :
     /\ x[i] \in {" ", "\n"}
     /\ DepthAt(x, i) > 0
     /\ \A j \in 1..i : x[j] \notin {"[", backtick, quote}
     /\ \A j \in 1..i : x[j] \in {";", "#"} => \E k \in j..i : x[k] = "\n"}

Inserted(x, i, c) == SubSeq(x, 1, i) \o c \o SubSeq(x, i + 1, Len(x))

\* What parseNodeBody(true) made of a document.
Parse(d) ==
  With(parseNodeBody(NewParser(d), TRUE), LAMBDA b :
    [tree |-> IF b.st = "ok" THEN b.val ELSE <<>>,
     res |-> [kind |-> IF b.st = "err" THEN "parse" ELSE b.st,
              msg |-> b.msg, line |-> b.line]])

InitComment ==
  /\ outType = "Page" /\ isPtr = TRUE
  /\ pre = [tree |-> <<>>, res |-> NoResult] /\ out = <<>>
  /\ data = <<>>
  /\ tree = <<>>
  /\ res = NoResult
  /\ pc = "ready"

\* The document as it is.
DoParsePlain ==
  /\ pc = "ready"
  /\ \E d \in CommentDocs :
       With(Parse(d), LAMBDA r :
         /\ data' = d
         /\ tree' = r.tree
         /\ res' = r.res)
  /\ pc' = "plain"
  /\ UNCHANGED <<outType, isPtr, pre, out>>

\* The document with a comment line in it; pre keeps the first parse, out
\* the document as it was.
DoParseCommented ==
  /\ pc = "plain"
  /\ \E i \in Places(data), c \in CommentLines :
       With(Parse(Inserted(data, i, c)), LAMBDA r :
         /\ data' = Inserted(data, i, c)
         /\ tree' = r.tree
         /\ res' = r.res)
  /\ pre' = [tree |-> tree, res |-> res]
  /\ out' = data
  /\ pc' = "commented"
  /\ UNCHANGED <<outType, isPtr>>

NextComment == DoParsePlain \/ DoParseCommented

SpecComment == InitComment /\ [][NextComment]_vars

RECURSIVE Shape(_)
\* A list of values without its line numbers: heads, strings, nesting, order.
Shape(values) ==
  [i \in 1..Len(values) |->
     IF values[i].kind = "string" THEN <<"string", values[i].str>>
     ELSE <<"list", values[i].head.str, Shape(values[i].values)>>]

(***************************************************************************)
(* C22: a comment line, ; or # up to the line feed, put before a document  *)
(* or between two values of a list body changes nothing of what the parser *)
(* returns but line numbers: the same tree, or the same failure.           *)
(***************************************************************************)
C22_CommentsAreTrivia ==
  pc = "commented" =>
    /\ res.kind = pre.res.kind /\ res.msg = pre.res.msg
    /\ Shape(tree) = Shape(pre.tree)

\* A comment line with a parenthesis in it, after the head of a list that
\* holds a value.
C22_Witness ==
  /\ pc = "commented" /\ res.kind = "ok"
  /\ Len(data) = Len(out) + 5 /\ data[4] = "#"
  /\ Len(tree) = 1 /\ Len(tree[1].values) = 1
  /\ Shape(tree) = Shape(pre.tree)

(***************************************************************************)
(* C23: line numbers start at 1 and are exact.  The line of a string is 1  *)
(* plus the number of line feeds before its first rune (its opening        *)
(* marker when it has one), the line of a list 1 plus the number of line   *)
(* feeds before its opening parenthesis.                                   *)
(***************************************************************************)
RECURSIVE LinesOf(_, _)
\* The line numbers of the values from the i-th on, as they come in the
\* text: each list gives its own, that of its head and those of its values.
LinesOf(values, i) ==
  IF i > Len(values) THEN <<>>
  ELSE (IF values[i].kind = "string" THEN <<values[i].lineNumber>>
        ELSE <<values[i].lineNumber, values[i].head.lineNumber>>
               \o LinesOf(values[i].values, 1))
       \o LinesOf(values, i + 1)

\* The line feeds among runes i .. j of x.
Feeds(x, i, j) == Cardinality({k \in i..j : x[k] = "\n"})

\* The first rune from i on that ends a bare string, Len(x) + 1 for none.
WordEnd(x, i) ==
  IF \E j \in i..Len(x) : x[j] \in {" ", "\n", sexprOpen, sexprClose, "[", "]"}
  THEN CHOOSE j \in i..Len(x) :
         /\ x[j] \in {" ", "\n", sexprOpen, sexprClose, "[", "]"}
         /\ \A k \in i..(j - 1) : x[k] \notin {" ", "\n", sexprOpen, sexprClose, "[", "]"}
  ELSE Len(x) + 1

\* The end of the line of rune i, Len(x) for none.
LineEnd(x, i) ==
  IF \E j \in i..Len(x) : x[j] = "\n"
  THEN CHOOSE j \in i..Len(x) : x[j] = "\n" /\ \A k \in i..(j - 1) : x[k] # "\n"
  ELSE Len(x)

RECURSIVE StartLines(_, _, _)
\* 1 plus the number of line feeds before the first rune of every list and
\* string that starts at rune i of x or later, in the order of the text;
\* head says that rune i follows an opening parenthesis.
StartLines(x, i, head) ==
  IF i > Len(x) THEN <<>>
  ELSE IF x[i] = "[" THEN
    IF MatchAt(x, i + 1, 1) = 0 THEN <<>>
    ELSE <<1 + Feeds(x, 1, i)>> \o StartLines(x, MatchAt(x, i + 1, 1) + 1, FALSE)
  ELSE IF x[i] \notin {" ", "\n", sexprOpen, sexprClose, "]"}
          /\ (head \/ x[i] \notin {";", "#"})
  THEN <<1 + Feeds(x, 1, i)>> \o StartLines(x, WordEnd(x, i), FALSE)
  ELSE IF head THEN <<1 + Feeds(x, 1, i - 1)>> \o StartLines(x, i, FALSE)
  ELSE IF x[i] = sexprOpen THEN <<1 + Feeds(x, 1, i)>> \o StartLines(x, i + 1, TRUE)
  ELSE IF x[i] \in {";", "#"} THEN StartLines(x, LineEnd(x, i) + 1, FALSE)
  ELSE StartLines(x, i + 1, FALSE)

\* No closing parenthesis stands outside every list.
NoStrayClose ==
  \A i \in 1..Len(data) : data[i] = sexprClose => DepthAt(data, i - 1) > 0

C23_LinesExact ==
  (PageLoaded /\ ParseOk) =>
    /\ Len(LinesOf(tree, 1)) <= Len(StartLines(data, 1, FALSE))
    /\ LinesOf(tree, 1) = SubSeq(StartLines(data, 1, FALSE), 1, Len(LinesOf(tree, 1)))
    /\ NoStrayClose => LinesOf(tree, 1) = StartLines(data, 1, FALSE)

\* A string in brackets that begins on line 1 and ends on line 2, and after
\* it a list on line 2.
C23_Witness ==
  /\ PageLoaded /\ ParseOk /\ NoStrayClose
  /\ Len(tree) = 1 /\ tree[1].lineNumber = 1 /\ Len(tree[1].values) = 2
  /\ tree[1].values[1].kind = "string" /\ tree[1].values[1].lineNumber = 1
  /\ "\n" \in {tree[1].values[1].str[i] : i \in 1..Len(tree[1].values[1].str)}
  /\ tree[1].values[2].kind = "node" /\ tree[1].values[2].lineNumber = 2
  /\ tree[1].values[2].head.lineNumber = 2

(***************************************************************************)
(* C24: a string between double quotes is one string, white space          *)
(* included: a list whose body is one such string has exactly one value,   *)
(* the text between the quotes.                                            *)
(***************************************************************************)
\* The document is the list a of one string in double quotes, without a
\* double quote inside.
OneDoubleQuoted ==
  /\ PageLoaded /\ Len(data) >= 6
  /\ SubSeq(data, 1, 4) = <<sexprOpen, "a", " ", quote>>
  /\ SubSeq(data, Len(data) - 1, Len(data)) = <<quote, sexprClose>>
  /\ \A i \in 5..(Len(data) - 2) : data[i] \notin {quote, sexprOpen, sexprClose}

C24_DoubleQuoted ==
  OneDoubleQuoted =>
    /\ ParseOk /\ Len(tree) = 1
    /\ Shape(tree[1].values) = << <<"string", SubSeq(data, 5, Len(data) - 2)>> >>

(***************************************************************************)
(* C25: a document with a list that has no head string, its opening        *)
(* parenthesis being followed by a closing one or by another list, is      *)
(* refused with a parse error; no tree is returned for it.                 *)
(***************************************************************************)
\* An opening parenthesis, outside strings and comments, is followed by a
\* parenthesis.
HeadlessList ==
  \E i \in 1..(Len(data) - 1) :
    /\ data[i] = sexprOpen /\ data[i + 1] \in {sexprOpen, sexprClose}
    /\ \A j \in 1..i : data[j] \notin {"[", "]", ";", "#", backtick, quote}

C25_NoHeadlessList == (PageLoaded /\ HeadlessList) => res.kind = "parse"

(***************************************************************************)
(* C26: parsing ends on every document, with a tree or with a parse error: *)
(* also when the last token is a bare string, and when a list body holds a *)
(* rune that starts no token.                                              *)
(***************************************************************************)
C26_ParseTerminates == PageLoaded => res.kind # "hang"

(***************************************************************************)
(* C27: a parse that succeeds accounts for the whole document: every       *)
(* top-level list is among the values of the root, in order, also after a  *)
(* closing parenthesis that closes nothing.                                *)
(***************************************************************************)
\* The document is made of lists of bare strings, parentheses and white
\* space only.
PlainDocument ==
  \A j \in 1..Len(data) : data[j] \notin {"[", "]", ";", "#", backtick, quote}

\* The opening parentheses outside every list.
TopLists == {i \in 1..Len(data) : data[i] = sexprOpen /\ DepthAt(data, i - 1) = 0}

C27_WholeInputParsed ==
  (PageLoaded /\ PlainDocument /\ ParseOk) => Len(tree) = Cardinality(TopLists)

(***************************************************************************)
(* Loads into a Rows.                                                      *)
(***************************************************************************)
RowsLoaded == pc = "done" /\ outType = "Rows"

(***************************************************************************)
(* C28: binding never aborts on a destination made of records, slices,     *)
(* arrays, maps with scalar keys and scalars: the load ends with the bound *)
(* value or with a bind error, and the rows ([] 10 20) ([] 30 40) bound to *)
(* a slice of arrays of two give the slice of the two arrays.              *)
(***************************************************************************)
\* The array of two that a list of two numbers stands for.
RowOf(n) ==
  GoArray(<<GoInt(DecimalValue(n.values[1].str)), GoInt(DecimalValue(n.values[2].str))>>)

\* The document is the list S of rows of two numbers each.
RowsOfTwo ==
  /\ RowsLoaded /\ Len(tree) = 1 /\ tree[1].head.str = <<"S">>
  /\ tree[1].values # <<>>
  /\ \A i \in 1..Len(tree[1].values) :
       /\ tree[1].values[i].kind = "node"
       /\ tree[1].values[i].head.str = <<>>
       /\ Len(tree[1].values[i].values) = 2

C28_BindNeverAborts ==
  /\ RowsLoaded => res.kind \in {"ok", "pack"}
  /\ RowsOfTwo =>
       /\ res.kind = "ok"
       /\ Len(out.v[1].v) >= Len(tree[1].values)
       /\ \A i \in 1..Len(tree[1].values) :
            out.v[1].v[Len(out.v[1].v) - Len(tree[1].values) + i] = RowOf(tree[1].values[i])

(***************************************************************************)
(* C29: after a list of k values is bound to a slice, the slice holds the  *)
(* k bound elements in the order of the values and nothing else: not what  *)
(* the caller had put there, nor the elements of an earlier list of the    *)
(* same name in the document.                                              *)
(***************************************************************************)
\* The document is made of lists L of strings, and the load succeeded.
WordsLoaded ==
  /\ RowsLoaded /\ res.kind = "ok" /\ tree # <<>>
  /\ \A i \in 1..Len(tree) : tree[i].head.str = <<"L">>

\* The strings of the last list L.
LastWords ==
  [i \in 1..Len(tree[Len(tree)].values) |-> GoString(tree[Len(tree)].values[i].str)]

C29_SliceReplaced == WordsLoaded => out.v[2].v = LastWords

(***************************************************************************)
(* C30: LoadString validates out.  When the text parses and out is not a   *)
(* pointer to a struct, LoadString returns the error "loadFile/loadString  *)
(* expects a pointer to a struct" and binds nothing.                       *)
(***************************************************************************)
\* out is a struct by value, or a pointer to something else than a struct.
NoStructPointer ==
  /\ pc = "done" /\ res.kind \notin {"parse", "hang"}
  /\ ~(isPtr /\ TypeNamed(outType).kind = "struct")

C30_DestinationValidated ==
  NoStructPointer =>
    /\ res.kind = "usage"
    /\ res.msg = "loadFile/loadString expects a pointer to a struct"
    /\ out = pre

====
